---- MODULE Spec2Model ----
(***************************************************************************)
(* The STET client library (client/client.go): Encrypt splits a data       *)
(* encryption key into shares, wraps every share under its key encryption  *)
(* key (a local RSA key, Cloud KMS, or an external key manager reached     *)
(* through a secure session) and writes a container; Decrypt reads a       *)
(* container, unwraps the shares, recombines the key and decrypts.         *)
(*                                                                         *)
(* One action is one call of Encrypt or Decrypt on a StetClient.  What the *)
(* world outside the library answers (Cloud KMS, the external key manager, *)
(* the token issuer, the reader and the writer) is an input of the call:   *)
(* one fault name for every share and one for the streams.                 *)
(***************************************************************************)
EXTENDS Integers, Sequences, FiniteSets, TLC

\* The largest number of KekInfos of a KeyConfig.
MaxShares == 3

(***************************************************************************)
(* Values.                                                                 *)
(***************************************************************************)

gcpKeyPrefix == "gcp-kms://"

\* A URI, cut where net/url and the strings package cut it.
Uri(scheme, host, port, path) ==
    [scheme |-> scheme, host |-> host, port |-> port, path |-> path]

EmptyUri == Uri("", "", "", "")
\* A string url.Parse rejects.
MalformedUri == Uri("%", "", "", "")

GcpUri(name) == Uri(gcpKeyPrefix, "", "", name)

\* The external key the Cloud KMS record of kE points at.
ExternalKeyUri == Uri("https://", "ekm.example", ":8443", "e1")

RsaKek(fp) == [type |-> "RsaFingerprint", fp |-> fp, uri |-> EmptyUri]
UriKek(u) == [type |-> "KekUri", fp |-> "", uri |-> u]
\* A KekInfo whose oneof is not set.
UnsetKek == [type |-> "unset", fp |-> "", uri |-> EmptyUri]

\* KekInfos that can wrap a share when the world answers well: a local RSA
\* key, and Cloud KMS keys of protection level SOFTWARE, HSM and EXTERNAL.
GoodKeks == {RsaKek("fpA"), UriKek(GcpUri("kS")), UriKek(GcpUri("kH")), UriKek(GcpUri("kE"))}
\* Those the Shamir KeyConfigs are drawn over.
ShamirKeks == {RsaKek("fpA"), UriKek(GcpUri("kS")), UriKek(GcpUri("kE"))}
\* KekInfos no share can be wrapped under.
BadKeks == {UnsetKek, UriKek(Uri("aws-kms://", "", "", "kZ"))}

\* A share of the DEK: Shamir's x coordinate, and what any `threshold`
\* shares of the same polynomial interpolate to.
Share(x, secret, threshold) == [x |-> x, secret |-> secret, threshold |-> threshold]
NoShare == Share(0, "", 0)
GarbageShare == Share(0, "garbage", 0)

\* A wrapped blob: the wrapping key and what it hides.
Blob(kind, id, res, pt) == [kind |-> kind, id |-> id, res |-> res, pt |-> pt]
NoBlob == Blob("", "", "", NoShare)

Ev(op, i) == [op |-> op, share |-> i]

(***************************************************************************)
(* The shares package, the container framing and the AEAD stream.          *)
(***************************************************************************)

NewDEK == "dek"

HashShare(share) == <<"sha256", share>>

ValidateShare(share, hash) == HashShare(share) = hash

KeyConfig(kekInfos, alg, n, k) ==
    [kekInfos |-> kekInfos, alg |-> alg, shares |-> n, threshold |-> k]

\* NoSplit needs one KekInfo; Shamir needs 2 <= k <= n <= 255 and n KekInfos.
CreateDEKShares(dek, keyCfg) ==
    CASE keyCfg.alg = "NoSplit" ->
           IF Len(keyCfg.kekInfos) # 1
           THEN [err |-> "ConfigInvalid", shares |-> <<>>]
           ELSE [err |-> "", shares |-> <<Share(0, dek, 1)>>]
      [] keyCfg.alg = "Shamir" ->
           IF \/ Len(keyCfg.kekInfos) # keyCfg.shares
              \/ keyCfg.threshold < 2
              \/ keyCfg.threshold > keyCfg.shares
              \/ keyCfg.shares > 255
           THEN [err |-> "ConfigInvalid", shares |-> <<>>]
           ELSE [err |-> "",
                 shares |-> [x \in 1..keyCfg.shares |-> Share(x, dek, keyCfg.threshold)]]
      [] OTHER -> [err |-> "ConfigInvalid", shares |-> <<>>]

\* The shares combine interpolates over: the first k by input order.
SharesConsumed(keyCfg, unwrapped) ==
    IF keyCfg.alg = "Shamir" /\ Len(unwrapped) >= keyCfg.threshold
    THEN SubSeq(unwrapped, 1, keyCfg.threshold)
    ELSE unwrapped

\* Lagrange interpolation gives the secret from `threshold` distinct points
\* of one polynomial, and something else from fewer.
CombineShares(list) ==
    IF /\ Len(list) > 0
       /\ \A a, b \in 1..Len(list) :
            /\ list[a].secret = list[1].secret
            /\ list[a].threshold = list[1].threshold
            /\ (a # b => list[a].x # list[b].x)
       /\ Len(list) >= list[1].threshold
    THEN list[1].secret
    ELSE "garbage"

CombineUnwrappedShares(keyCfg, unwrapped) ==
    CASE keyCfg.alg = "NoSplit" ->
           IF Len(unwrapped) # 1
           THEN [err |-> "BelowThreshold", dek |-> ""]
           ELSE [err |-> "", dek |-> unwrapped[1].share.secret]
      [] keyCfg.alg = "Shamir" ->
           IF Len(unwrapped) < keyCfg.threshold
           THEN [err |-> "BelowThreshold", dek |-> ""]
           ELSE [err |-> "",
                 dek |-> CombineShares([a \in 1..keyCfg.threshold |->
                                          SharesConsumed(keyCfg, unwrapped)[a].share])]
      [] OTHER -> [err |-> "ConfigInvalid", dek |-> ""]

Metadata(blobID, keyCfg, shares) ==
    [blobID |-> blobID, keyConfig |-> keyCfg, shares |-> shares]
NoMetadata == Metadata("", KeyConfig(<<>>, "unset", 0, 0), <<>>)

\* The bytes of a serialised Metadata.  `form` tells one wire encoding of a
\* message from another: "canonical" is the one the Go marshaller writes for
\* a message without map fields, with the Deterministic option or without.
Serialised(form, metadata) == <<form, metadata>>

MetadataToAAD(metadata) == Serialised("canonical", metadata)

protoMarshal(metadata) == Serialised("canonical", metadata)

\* proto.Unmarshal accepts every encoding of the message.
protoUnmarshal(bytes) == bytes[2]

protoEqual(a, b) == a = b

\* The parts of a container, in the order they are written.
HeaderPart(len) == [part |-> "header", len |-> len, body |-> <<>>]
MetadataPart(bytes) == [part |-> "metadata", len |-> 1, body |-> bytes]
AeadPart(key, aad, pt) == [part |-> "aead", len |-> 1, body |-> <<key, aad, pt>>]

\* io is the fault of the output stream during this call.
WriteSTETHeader(len, io) ==
    IF io = "headerErr" THEN [err |-> "io", written |-> <<>>]
    ELSE [err |-> "", written |-> <<HeaderPart(len)>>]

outputWrite(bytes, io) ==
    IF io = "metaErr" THEN [err |-> "io", written |-> <<>>]
    ELSE [err |-> "", written |-> <<MetadataPart(bytes)>>]

AeadEncrypt(dek, input, aad, io) ==
    IF io = "aeadErr" THEN [err |-> "AeadFailed", written |-> <<>>]
    ELSE [err |-> "", written |-> <<AeadPart(dek, aad, input)>>]

\* A complete container: header, metadata and AEAD stream, nothing else.
ValidContainer(bytes) ==
    /\ Len(bytes) = 3
    /\ bytes[1].part = "header"
    /\ bytes[2].part = "metadata"
    /\ bytes[3].part = "aead"

ReadMetadata(input, io) ==
    IF io = "readErr" \/ Len(input) < 2
       \/ input[1].part # "header" \/ input[2].part # "metadata"
    THEN [err |-> "BadMagic", metadata |-> NoMetadata]
    ELSE [err |-> "", metadata |-> protoUnmarshal(input[2].body)]

AeadDecrypt(dek, input, aad, io) ==
    IF \/ io = "aeadErr"
       \/ Len(input) < 3
       \/ input[3].part # "aead"
       \/ input[3].body[1] # dek
       \/ input[3].body[2] # aad
    THEN [err |-> "AeadFailed", written |-> <<>>]
    ELSE [err |-> "", written |-> <<input[3].body[3]>>]

(***************************************************************************)
(* The world outside the library.  f names what goes wrong while the share *)
(* at hand is handled ("ok": nothing); cancelled tells that the caller's   *)
(* context has been cancelled, after which every call that takes the       *)
(* context fails.                                                          *)
(***************************************************************************)

\* What Cloud KMS holds for the key named `name`.
ProtectionLevelOf(name) ==
    CASE name = "kS" -> "SOFTWARE"
      [] name = "kH" -> "HSM"
      [] name = "kE" -> "EXTERNAL"
      [] OTHER -> "PROTECTION_LEVEL_UNSPECIFIED"

NoOptions == [present |-> FALSE, externalKeyUri |-> EmptyUri]

CryptoKeyVersion(state, level, options) ==
    [state |-> state, protectionLevel |-> level, externalProtectionLevelOptions |-> options]

\* cloudKMSClient.GetCryptoKey: the primary version of the key.
KmsGetCryptoKey(name, f, cancelled) ==
    IF cancelled \/ f = "getKeyErr"
    THEN [err |-> TRUE, primary |-> CryptoKeyVersion("", "", NoOptions)]
    ELSE [err |-> FALSE,
          primary |-> CryptoKeyVersion(
              IF f = "disabled" THEN "DISABLED" ELSE "ENABLED",
              CASE f = "unspecified" -> "PROTECTION_LEVEL_UNSPECIFIED"
                [] f = "vpc" -> "EXTERNAL_VPC"
                [] OTHER -> ProtectionLevelOf(name),
              IF ProtectionLevelOf(name) # "EXTERNAL" \/ f = "noExtOptions"
              THEN NoOptions
              ELSE [present |-> TRUE,
                    externalKeyUri |-> CASE f = "extUriBad" -> MalformedUri
                                         [] f = "extUriEmpty" -> EmptyUri
                                         [] OTHER -> ExternalKeyUri])]

crc32c(data) == <<"crc32c", data>>

\* cloudKMSClient.Encrypt.
KmsEncrypt(req, f, cancelled) ==
    IF cancelled \/ f \in {"rpcErr", "cancel"}
    THEN [err |-> TRUE, ciphertext |-> NoBlob, ciphertextCrc32c |-> crc32c(NoBlob),
          verifiedPlaintextCrc32c |-> FALSE]
    ELSE LET ct == Blob("kms", req.name, "", req.plaintext)
         IN [err |-> FALSE,
             ciphertext |-> ct,
             ciphertextCrc32c |-> IF f = "badCrc" THEN crc32c(NoBlob) ELSE crc32c(ct),
             verifiedPlaintextCrc32c |->
                 f # "unverified" /\ req.plaintextCrc32c = crc32c(req.plaintext)]

\* cloudKMSClient.Decrypt.
KmsDecrypt(req, f, cancelled) ==
    IF \/ cancelled
       \/ f \in {"rpcErr", "cancel"}
       \/ req.ciphertext.kind # "kms"
       \/ req.ciphertext.id # req.name
       \/ req.ciphertextCrc32c # crc32c(req.ciphertext)
    THEN [err |-> TRUE, plaintext |-> NoShare, plaintextCrc32c |-> crc32c(NoShare)]
    ELSE LET pt == IF f = "wrongPlain" THEN GarbageShare ELSE req.ciphertext.pt
         IN [err |-> FALSE,
             plaintext |-> pt,
             plaintextCrc32c |-> IF f = "badCrc" THEN crc32c(NoBlob) ELSE crc32c(pt)]

\* jwt.GenerateTokenWithAudience.
GenerateTokenWithAudience(audience, f, cancelled) ==
    IF cancelled \/ f = "tokenErr"
    THEN [err |-> TRUE, token |-> <<>>]
    ELSE [err |-> FALSE, token |-> <<"jwt", audience>>]

\* securesession.EstablishSecureSession: nothing answers at an empty address,
\* and the key manager turns down a bearer token whose audience is not its
\* own <scheme>://<host>.
EstablishSecureSession(uri, authToken, f, cancelled) ==
    IF \/ cancelled
       \/ f = "sessErr"
       \/ uri = EmptyUri
       \/ authToken # <<"jwt", <<uri.scheme, uri.host>>>>
    THEN [err |-> TRUE]
    ELSE [err |-> FALSE]

\* secureSessionClient.ConfidentialWrap.
ConfidentialWrap(keyPath, resourceName, plaintext, f, cancelled) ==
    IF cancelled \/ f \in {"confErr", "cancel"}
    THEN [err |-> TRUE, blob |-> NoBlob]
    ELSE [err |-> FALSE, blob |-> Blob("ekm", keyPath, resourceName, plaintext)]

\* secureSessionClient.ConfidentialUnwrap.
ConfidentialUnwrap(keyPath, resourceName, wrappedBlob, f, cancelled) ==
    IF \/ cancelled
       \/ f \in {"confErr", "cancel"}
       \/ wrappedBlob.kind # "ekm"
       \/ wrappedBlob.id # keyPath
       \/ wrappedBlob.res # resourceName
    THEN [err |-> TRUE, plaintext |-> NoShare]
    ELSE [err |-> FALSE,
          plaintext |-> IF f = "wrongPlain" THEN GarbageShare ELSE wrappedBlob.pt]

\* secureSessionClient.EndSession.
EndSession(f, cancelled) ==
    IF cancelled \/ f = "endErr" THEN [err |-> TRUE] ELSE [err |-> FALSE]

\* rsa.EncryptOAEP and rsa.DecryptOAEP under the key with fingerprint fp.
EncryptOAEP(fp, share, f) ==
    IF f = "oaepErr" THEN [err |-> TRUE, blob |-> NoBlob]
    ELSE [err |-> FALSE, blob |-> Blob("rsa", fp, "", share)]

DecryptOAEP(fp, blob, f) ==
    IF f = "oaepErr" \/ blob.kind # "rsa" \/ blob.id # fp
    THEN [err |-> TRUE, plaintext |-> NoShare]
    ELSE [err |-> FALSE, plaintext |-> blob.pt]

\* A key file on disk: whether it can be read, its PEM block type, and the
\* fingerprint of the key in it.
KeyFile(readable, pem, fp) == [readable |-> readable, pem |-> pem, fp |-> fp]

AsymmetricKeys(pub, priv) == [publicKeyFiles |-> pub, privateKeyFiles |-> priv]

(***************************************************************************)
(* client.go.  s is what one call of wrapShares or unwrapAndValidateShares *)
(* carries from share to share: the StetClient's kmsClient, the context,   *)
(* the calls made so far and the number of deferred Close calls.           *)
(***************************************************************************)

Logged(s, op, i) == [s EXCEPT !.log = Append(@, Ev(op, i))]

\* kmsClient is "nil", "open", "closed" (Close has been called on it), or
\* "nilptr": NewKeyManagementClient failed and left its nil *KeyManagementClient
\* in the interface field, which no longer compares equal to nil.
initializeKMSClient(s, i, f) ==
    IF s.kmsClient # "nil" THEN [err |-> "", s |-> s]
    ELSE IF f = "initErr"
    THEN [err |-> "error creating KMS client",
          s |-> [Logged(s, "NewKeyManagementClient", i) EXCEPT !.kmsClient = "nilptr"]]
    ELSE [err |-> "",
          s |-> [Logged(s, "NewKeyManagementClient", i) EXCEPT !.kmsClient = "open"]]

\* parseEKMKeyURI with u.Host, port included, where it has u.Hostname().
parseEKMKeyURIWithPort(keyURI) ==
    IF keyURI = MalformedUri
    THEN [err |-> "could not parse", addr |-> <<>>, keyPath |-> ""]
    ELSE [err |-> "", addr |-> <<keyURI.scheme, keyURI.host, keyURI.port>>,
          keyPath |-> IF keyURI.path = "" THEN "." ELSE keyURI.path]

parseEKMKeyURI(keyURI) ==
    IF keyURI = MalformedUri
    THEN [err |-> "could not parse", addr |-> <<>>, keyPath |-> ""]
    ELSE [err |-> "", addr |-> <<keyURI.scheme, keyURI.host>>,
          keyPath |-> IF keyURI.path = "" THEN "." ELSE keyURI.path]

KekMetadata(level, uri, resourceName) ==
    [protectionLevel |-> level, uri |-> uri, resourceName |-> resourceName]
NoKekMetadata == KekMetadata("", EmptyUri, "")

\* c is the StetClient: c.fake tells whether fakeSecureSessionClient is set.
ekmSecureSessionWrap(c, s, unwrappedShare, md, i, f) ==
    LET p == parseEKMKeyURI(md.uri)
        tok == GenerateTokenWithAudience(p.addr, f, s.cancelled)
        s1 == IF c.fake THEN s ELSE Logged(s, "GenerateTokenWithAudience", i)
        est == EstablishSecureSession(md.uri, tok.token, f, s.cancelled)
        s2 == IF c.fake THEN s ELSE Logged(s1, "EstablishSecureSession", i)
        w == ConfidentialWrap(p.keyPath, md.resourceName, unwrappedShare, f, s2.cancelled)
        s3 == [Logged(s2, "ConfidentialWrap", i) EXCEPT !.cancelled = @ \/ f = "cancel"]
        e == EndSession(f, s3.cancelled)
        s4 == Logged(s3, "EndSession", i)
    IN  IF p.err # "" THEN [err |-> p.err, blob |-> NoBlob, s |-> s]
        ELSE IF ~c.fake /\ tok.err
        THEN [err |-> "failed to generate token", blob |-> NoBlob, s |-> s1]
        ELSE IF ~c.fake /\ est.err
        THEN [err |-> "error establishing secure session", blob |-> NoBlob, s |-> s2]
        ELSE IF w.err
        THEN [err |-> "error wrapping with secure session", blob |-> NoBlob, s |-> s3]
        ELSE IF e.err
        THEN [err |-> "error ending secure session", blob |-> NoBlob, s |-> s4]
        ELSE [err |-> "", blob |-> w.blob, s |-> s4]

ekmSecureSessionUnwrap(c, s, wrappedShare, md, i, f) ==
    LET p == parseEKMKeyURI(md.uri)
        tok == GenerateTokenWithAudience(p.addr, f, s.cancelled)
        s1 == IF c.fake THEN s ELSE Logged(s, "GenerateTokenWithAudience", i)
        est == EstablishSecureSession(md.uri, tok.token, f, s.cancelled)
        s2 == IF c.fake THEN s ELSE Logged(s1, "EstablishSecureSession", i)
        u == ConfidentialUnwrap(p.keyPath, md.resourceName, wrappedShare, f, s2.cancelled)
        s3 == [Logged(s2, "ConfidentialUnwrap", i) EXCEPT !.cancelled = @ \/ f = "cancel"]
        e == EndSession(f, s3.cancelled)
        s4 == Logged(s3, "EndSession", i)
    IN  IF p.err # "" THEN [err |-> p.err, share |-> NoShare, s |-> s]
        ELSE IF ~c.fake /\ tok.err
        THEN [err |-> "failed to generate token", share |-> NoShare, s |-> s1]
        ELSE IF ~c.fake /\ est.err
        THEN [err |-> "error establishing secure session", share |-> NoShare, s |-> s2]
        ELSE IF u.err
        THEN [err |-> "error unwrapping with secure session", share |-> NoShare, s |-> s3]
        ELSE IF e.err
        THEN [err |-> "error ending secure session", share |-> NoShare, s |-> s4]
        ELSE [err |-> "", share |-> u.plaintext, s |-> s4]

\* wrapKMSShare without the comparison of the checksum of the ciphertext
\* received with the checksum declared.
wrapKMSShareTrustsCiphertext(s, share, keyName, i, f) ==
    LET req == [name |-> keyName, plaintext |-> share, plaintextCrc32c |-> crc32c(share)]
        result == KmsEncrypt(req, f, s.cancelled)
        s1 == [Logged(s, "Encrypt", i) EXCEPT !.cancelled = @ \/ f = "cancel"]
    IN  IF result.err THEN [err |-> "failed to encrypt", blob |-> NoBlob, s |-> s1]
        ELSE IF ~result.verifiedPlaintextCrc32c
        THEN [err |-> "Encrypt: request corrupted in-transit", blob |-> NoBlob, s |-> s1]
        ELSE [err |-> "", blob |-> result.ciphertext, s |-> s1]

wrapKMSShare(s, share, keyName, i, f) ==
    LET req == [name |-> keyName, plaintext |-> share, plaintextCrc32c |-> crc32c(share)]
        result == KmsEncrypt(req, f, s.cancelled)
        s1 == [Logged(s, "Encrypt", i) EXCEPT !.cancelled = @ \/ f = "cancel"]
    IN  IF result.err THEN [err |-> "failed to encrypt", blob |-> NoBlob, s |-> s1]
        ELSE IF ~result.verifiedPlaintextCrc32c
        THEN [err |-> "Encrypt: request corrupted in-transit", blob |-> NoBlob, s |-> s1]
        ELSE IF crc32c(result.ciphertext) # result.ciphertextCrc32c
        THEN [err |-> "Encrypt: response corrupted in-transit", blob |-> NoBlob, s |-> s1]
        ELSE [err |-> "", blob |-> result.ciphertext, s |-> s1]

\* unwrapKMSShare with the integrity check made against the wrong bytes: the
\* checksum of the ciphertext sent instead of that of the plaintext received.
unwrapKMSShareChecksCiphertext(s, wrappedShare, keyName, i, f) ==
    LET req == [name |-> keyName, ciphertext |-> wrappedShare,
                ciphertextCrc32c |-> crc32c(wrappedShare)]
        result == KmsDecrypt(req, f, s.cancelled)
        s1 == [Logged(s, "Decrypt", i) EXCEPT !.cancelled = @ \/ f = "cancel"]
    IN  IF result.err THEN [err |-> "failed to decrypt ciphertext", share |-> NoShare, s |-> s1]
        ELSE IF crc32c(wrappedShare) # result.plaintextCrc32c
        THEN [err |-> "Decrypt: response corrupted in-transit", share |-> NoShare, s |-> s1]
        ELSE [err |-> "", share |-> result.plaintext, s |-> s1]

unwrapKMSShare(s, wrappedShare, keyName, i, f) ==
    LET req == [name |-> keyName, ciphertext |-> wrappedShare,
                ciphertextCrc32c |-> crc32c(wrappedShare)]
        result == KmsDecrypt(req, f, s.cancelled)
        s1 == [Logged(s, "Decrypt", i) EXCEPT !.cancelled = @ \/ f = "cancel"]
    IN  IF result.err THEN [err |-> "failed to decrypt ciphertext", share |-> NoShare, s |-> s1]
        ELSE IF crc32c(result.plaintext) # result.plaintextCrc32c
        THEN [err |-> "Decrypt: response corrupted in-transit", share |-> NoShare, s |-> s1]
        ELSE [err |-> "", share |-> result.plaintext, s |-> s1]

\* getKekURIMetadata taking the primary version as it comes: neither its
\* state nor an unspecified protection level is looked at.
getKekURIMetadataUnchecked(s, kekInfo, i, f) ==
    LET uri == kekInfo.uri
        cryptoKey == KmsGetCryptoKey(uri.path, f, s.cancelled)
        cryptoKeyVer == cryptoKey.primary
        s1 == Logged(s, "GetCryptoKey", i)
    IN  IF kekInfo.type # "KekUri"
        THEN [err |-> "cannot retrieve KEK Metadata for a non-KEK", kmd |-> NoKekMetadata, s |-> s]
        ELSE IF uri.scheme # gcpKeyPrefix
        THEN [err |-> "does not have the expected URI prefix", kmd |-> NoKekMetadata, s |-> s]
        ELSE IF s.kmsClient = "nilptr"
        THEN [err |-> "panic", kmd |-> NoKekMetadata, s |-> s]
        ELSE IF cryptoKey.err
        THEN [err |-> "error retrieving key metadata", kmd |-> NoKekMetadata, s |-> s1]
        ELSE IF /\ cryptoKeyVer.protectionLevel = "EXTERNAL"
                /\ ~cryptoKeyVer.externalProtectionLevelOptions.present
        THEN [err |-> "no external protection level options", kmd |-> NoKekMetadata, s |-> s1]
        ELSE [err |-> "",
              kmd |-> KekMetadata(
                  cryptoKeyVer.protectionLevel,
                  IF cryptoKeyVer.protectionLevel = "EXTERNAL"
                  THEN cryptoKeyVer.externalProtectionLevelOptions.externalKeyUri
                  ELSE uri,
                  uri.path),
              s |-> s1]

\* A call through the nil *KeyManagementClient panics before any request is sent.
getKekURIMetadata(s, kekInfo, i, f) ==
    LET uri == kekInfo.uri
        cryptoKey == KmsGetCryptoKey(uri.path, f, s.cancelled)
        cryptoKeyVer == cryptoKey.primary
        s1 == Logged(s, "GetCryptoKey", i)
    IN  IF kekInfo.type # "KekUri"
        THEN [err |-> "cannot retrieve KEK Metadata for a non-KEK", kmd |-> NoKekMetadata, s |-> s]
        ELSE IF uri.scheme # gcpKeyPrefix
        THEN [err |-> "does not have the expected URI prefix", kmd |-> NoKekMetadata, s |-> s]
        ELSE IF s.kmsClient = "nilptr"
        THEN [err |-> "panic", kmd |-> NoKekMetadata, s |-> s]
        ELSE IF cryptoKey.err
        THEN [err |-> "error retrieving key metadata", kmd |-> NoKekMetadata, s |-> s1]
        ELSE IF cryptoKeyVer.state # "ENABLED"
        THEN [err |-> "CryptoKeyVersion is not enabled", kmd |-> NoKekMetadata, s |-> s1]
        ELSE IF cryptoKeyVer.protectionLevel = "PROTECTION_LEVEL_UNSPECIFIED"
        THEN [err |-> "unspecified protection level", kmd |-> NoKekMetadata, s |-> s1]
        ELSE IF /\ cryptoKeyVer.protectionLevel = "EXTERNAL"
                /\ ~cryptoKeyVer.externalProtectionLevelOptions.present
        THEN [err |-> "no external protection level options", kmd |-> NoKekMetadata, s |-> s1]
        ELSE [err |-> "",
              kmd |-> KekMetadata(
                  cryptoKeyVer.protectionLevel,
                  IF cryptoKeyVer.protectionLevel = "EXTERNAL"
                  THEN cryptoKeyVer.externalProtectionLevelOptions.externalKeyUri
                  ELSE uri,
                  uri.path),
              s |-> s1]

\* The first file of the list decides when it cannot be read or is no PEM
\* block of the wanted type; otherwise the first file with the fingerprint.
RECURSIVE keyForRSAFingerprint(_, _, _)
keyForRSAFingerprint(fp, files, pemType) ==
    IF files = <<>> THEN [err |-> "no RSA key found for fingerprint", fp |-> ""]
    ELSE IF ~Head(files).readable
    THEN [err |-> "failed to open key file", fp |-> ""]
    ELSE IF Head(files).pem # pemType
    THEN [err |-> "failed to decode PEM block", fp |-> ""]
    ELSE IF Head(files).fp = fp THEN [err |-> "", fp |-> fp]
    ELSE keyForRSAFingerprint(fp, Tail(files), pemType)

publicKeyForRSAFingerprint(kek, keys) ==
    keyForRSAFingerprint(kek.fp, keys.publicKeyFiles, "PUBLIC KEY")

privateKeyForRSAFingerprint(kek, keys) ==
    keyForRSAFingerprint(kek.fp, keys.privateKeyFiles, "RSA PRIVATE KEY")

WrappedShare(blob, hash) == [share |-> blob, hash |-> hash]
UnwrappedShare(share, uri) == [share |-> share, uri |-> uri]

\* How a turn of the loop of wrapShares ends: with an error that ends
\* wrapShares, or with the wrapped share appended and the URI the turn reports
\* (uris).  Besides the calls made, the log tells where the loop has been:
\* "attempt" when a turn starts, "wrapped" when the turn appends its share.
wrapFailed(e, share, s) ==
    [err |-> e, wrapped |-> WrappedShare(NoBlob, HashShare(share)), uris |-> <<>>, s |-> s]

wrapAppended(blob, uris, share, s, i) ==
    [err |-> "", wrapped |-> WrappedShare(blob, HashShare(share)), uris |-> uris,
     s |-> Logged(s, "wrapped", i)]

\* case *configpb.KekInfo_RsaFingerprint of wrapShares.
wrapRsaShare(s, share, kek, keys, i, f) ==
    LET key == publicKeyForRSAFingerprint(kek, keys)
        oaep == EncryptOAEP(key.fp, share, f)
    IN  IF key.err # "" THEN wrapFailed("failed to find public key for RSA fingerprint", share, s)
        ELSE IF oaep.err
        THEN wrapFailed("error wrapping key share", share, Logged(s, "EncryptOAEP", i))
        ELSE wrapAppended(oaep.blob, <<>>, share, Logged(s, "EncryptOAEP", i), i)

\* r is what wrapKMSShare or ekmSecureSessionWrap returned.
wrapReturned(r, e, uri, share, i) ==
    IF r.err # "" THEN wrapFailed(e, share, r.s)
    ELSE wrapAppended(r.blob, <<uri>>, share, r.s, i)

\* switch pl := kmd.protectionLevel of wrapShares; m is what
\* getKekURIMetadata returned.
wrapByProtectionLevel(c, m, share, i, f) ==
    IF m.err # "" THEN wrapFailed(m.err, share, m.s)
    ELSE IF m.kmd.protectionLevel \in {"SOFTWARE", "HSM"}
    THEN wrapReturned(wrapKMSShare(m.s, share, m.kmd.resourceName, i, f),
                      "error wrapping key share", m.kmd.uri, share, i)
    ELSE IF m.kmd.protectionLevel = "EXTERNAL"
    THEN wrapReturned(ekmSecureSessionWrap(c, m.s, share, m.kmd, i, f),
                      "error wrapping with secure session", m.kmd.uri, share, i)
    ELSE wrapFailed("unsupported protection level", share, m.s)

\* case *configpb.KekInfo_KekUri of wrapShares; init is what
\* initializeKMSClient returned.
wrapKekUriShare(c, init, share, kek, i, f) ==
    IF init.err # "" THEN wrapFailed("error initializing KMS Client", share, init.s)
    ELSE wrapByProtectionLevel(
             c, getKekURIMetadata([init.s EXCEPT !.deferred = @ + 1], kek, i, f), share, i, f)

\* One turn of the loop of wrapShares, for share i under fault f.
wrapShare(c, s, share, kek, keys, i, f) ==
    CASE kek.type = "RsaFingerprint" ->
           wrapRsaShare(Logged(s, "attempt", i), share, kek, keys, i, f)
      [] kek.type = "KekUri" ->
           wrapKekUriShare(c, initializeKMSClient(Logged(s, "attempt", i), i, f),
                           share, kek, i, f)
      [] OTHER -> wrapFailed("unsupported KekInfo type", share, Logged(s, "attempt", i))

\* The deferred Close calls run when the function returns.
runDeferred(s) ==
    IF s.deferred = 0 \/ s.kmsClient = "nilptr" THEN [s EXCEPT !.deferred = 0]
    ELSE [s EXCEPT !.log = @ \o [j \in 1..s.deferred |-> Ev("Close", 0)],
                   !.kmsClient = "closed",
                   !.deferred = 0]

\* wrapShares after the turn that returned r, going on to the next share
\* whether or not the share could be wrapped.
wrapSharesGoingOn(acc, r) ==
    [err |-> "",
     wrappedShares |-> IF r.err # "" THEN acc.wrappedShares
                       ELSE Append(acc.wrappedShares, r.wrapped),
     keyURIs |-> acc.keyURIs \o r.uris,
     s |-> r.s]

\* The loop of wrapShares going on to the next share after a share that
\* could not be wrapped, as the loop of unwrapAndValidateShares does.
RECURSIVE wrapSharesLoopGoesOn(_, _, _, _, _, _, _)
wrapSharesLoopGoesOn(c, acc, unwrappedShares, kekInfos, keys, env, i) ==
    IF i > Len(unwrappedShares) THEN acc
    ELSE wrapSharesLoopGoesOn(
             c,
             wrapSharesGoingOn(
                 acc, wrapShare(c, acc.s, unwrappedShares[i], kekInfos[i], keys, i, env[i])),
             unwrappedShares, kekInfos, keys, env, i + 1)

\* wrapSharesAfter putting the URI of the turn in front of those it has.
wrapSharesAfterPrepending(acc, r) ==
    IF r.err # "" THEN [err |-> r.err, wrappedShares |-> <<>>, keyURIs |-> <<>>, s |-> r.s]
    ELSE [err |-> "",
          wrappedShares |-> Append(acc.wrappedShares, r.wrapped),
          keyURIs |-> r.uris \o acc.keyURIs,
          s |-> r.s]

\* wrapShares after the turn that returned r: the error returned, or the
\* share and its URI appended.
wrapSharesAfter(acc, r) ==
    IF r.err # "" THEN [err |-> r.err, wrappedShares |-> <<>>, keyURIs |-> <<>>, s |-> r.s]
    ELSE [err |-> "",
          wrappedShares |-> Append(acc.wrappedShares, r.wrapped),
          keyURIs |-> acc.keyURIs \o r.uris,
          s |-> r.s]

\* The loop of wrapShares from share i on; it ends at the first error.
RECURSIVE wrapSharesLoop(_, _, _, _, _, _, _)
wrapSharesLoop(c, acc, unwrappedShares, kekInfos, keys, env, i) ==
    IF i > Len(unwrappedShares) \/ acc.err # "" THEN acc
    ELSE wrapSharesLoop(
             c,
             wrapSharesAfter(
                 acc, wrapShare(c, acc.s, unwrappedShares[i], kekInfos[i], keys, i, env[i])),
             unwrappedShares, kekInfos, keys, env, i + 1)

\* wrapShares without the comparison of the two lengths: the loop runs over
\* the shares it is given, and indexes past the KekInfos when there are more
\* shares than KekInfos.
wrapSharesAnyLength(c, s, unwrappedShares, kekInfos, keys, env) ==
    IF Len(unwrappedShares) > Len(kekInfos)
    THEN [err |-> "panic", wrappedShares |-> <<>>, keyURIs |-> <<>>, s |-> s]
    ELSE [wrapSharesLoop(c, [err |-> "", wrappedShares |-> <<>>, keyURIs |-> <<>>, s |-> s],
                         unwrappedShares, kekInfos, keys, env, 1)
          EXCEPT !.s = runDeferred(@)]

wrapShares(c, s, unwrappedShares, kekInfos, keys, env) ==
    IF Len(unwrappedShares) # Len(kekInfos)
    THEN [err |-> "number of shares to wrap does not match number of KEKs",
          wrappedShares |-> <<>>, keyURIs |-> <<>>, s |-> s]
    ELSE [wrapSharesLoop(c, [err |-> "", wrappedShares |-> <<>>, keyURIs |-> <<>>, s |-> s],
                         unwrappedShares, kekInfos, keys, env, 1)
          EXCEPT !.s = runDeferred(@)]

\* How a turn of the loop of unwrapAndValidateShares ends: it ends the
\* function (err), keeps the unwrapped share (kept) or goes on to the next
\* share.  The log has "attempt" and "unwrapped" where the code logs
\* "Attempting to unwrap share" and "Successfully unwrapped share".
unwrapSkipped(s) ==
    [err |-> "", kept |-> FALSE, unwrapped |-> UnwrappedShare(NoShare, EmptyUri), s |-> s]

\* unwrapValidated keeping the share whatever its hash.
unwrapKeptUnvalidated(share, uri, wrapped, s, i) ==
    [err |-> "", kept |-> TRUE, unwrapped |-> UnwrappedShare(share, uri),
     s |-> Logged(s, "unwrapped", i)]

unwrapValidated(share, uri, wrapped, s, i) ==
    IF ValidateShare(share, wrapped.hash)
    THEN [err |-> "", kept |-> TRUE, unwrapped |-> UnwrappedShare(share, uri),
          s |-> Logged(s, "unwrapped", i)]
    ELSE unwrapSkipped(s)

\* case *configpb.KekInfo_RsaFingerprint of unwrapAndValidateShares.
unwrapRsaShare(s, wrapped, kek, keys, i, f) ==
    LET key == privateKeyForRSAFingerprint(kek, keys)
        oaep == DecryptOAEP(key.fp, wrapped.share, f)
    IN  IF key.err # "" THEN unwrapSkipped(s)
        ELSE IF oaep.err THEN unwrapSkipped(Logged(s, "DecryptOAEP", i))
        ELSE unwrapValidated(oaep.plaintext, EmptyUri, wrapped, Logged(s, "DecryptOAEP", i), i)

\* unwrapReturned ending unwrapAndValidateShares on the error of
\* unwrapKMSShare or ekmSecureSessionUnwrap.
unwrapReturnedOrFailed(r, uri, wrapped, i) ==
    IF r.err # ""
    THEN [err |-> "Error unwrapping key share", kept |-> FALSE,
          unwrapped |-> UnwrappedShare(NoShare, EmptyUri), s |-> r.s]
    ELSE unwrapValidated(r.share, uri, wrapped, r.s, i)

\* r is what unwrapKMSShare or ekmSecureSessionUnwrap returned.
unwrapReturned(r, uri, wrapped, i) ==
    IF r.err # "" THEN unwrapSkipped(r.s)
    ELSE unwrapValidated(r.share, uri, wrapped, r.s, i)

\* switch pl := kmd.protectionLevel of unwrapAndValidateShares; m is what
\* getKekURIMetadata returned.
unwrapByProtectionLevel(c, m, wrapped, i, f) ==
    IF m.err # ""
    THEN [err |-> IF m.err = "panic" THEN "panic" ELSE "Error retrieving KEK Metadata",
          kept |-> FALSE, unwrapped |-> UnwrappedShare(NoShare, EmptyUri), s |-> m.s]
    ELSE IF m.kmd.protectionLevel \in {"SOFTWARE", "HSM"}
    THEN unwrapReturned(unwrapKMSShare(m.s, wrapped.share, m.kmd.resourceName, i, f),
                        m.kmd.uri, wrapped, i)
    ELSE IF m.kmd.protectionLevel = "EXTERNAL"
    THEN unwrapReturned(ekmSecureSessionUnwrap(c, m.s, wrapped.share, m.kmd, i, f),
                        m.kmd.uri, wrapped, i)
    ELSE unwrapSkipped(m.s)

\* case *configpb.KekInfo_KekUri of unwrapAndValidateShares; init is what
\* initializeKMSClient returned.
unwrapKekUriShare(c, init, wrapped, kek, i, f) ==
    IF init.err # "" THEN unwrapSkipped(init.s)
    ELSE unwrapByProtectionLevel(
             c, getKekURIMetadata([init.s EXCEPT !.deferred = @ + 1], kek, i, f), wrapped, i, f)

\* One turn of the loop of unwrapAndValidateShares, for share i under fault f.
unwrapShare(c, s, wrapped, kek, keys, i, f) ==
    CASE kek.type = "RsaFingerprint" ->
           unwrapRsaShare(Logged(s, "attempt", i), wrapped, kek, keys, i, f)
      [] kek.type = "KekUri" ->
           unwrapKekUriShare(c, initializeKMSClient(Logged(s, "attempt", i), i, f),
                             wrapped, kek, i, f)
      [] OTHER -> unwrapSkipped(Logged(s, "attempt", i))

\* unwrapAndValidateShares after the turn that returned r.
unwrapSharesAfter(acc, r) ==
    IF r.err # "" THEN [err |-> r.err, unwrappedShares |-> <<>>, s |-> r.s]
    ELSE [err |-> "",
          unwrappedShares |-> IF r.kept THEN Append(acc.unwrappedShares, r.unwrapped)
                              ELSE acc.unwrappedShares,
          s |-> r.s]

\* The loop of unwrapAndValidateShares from share i on; it ends at the first
\* error returned.
RECURSIVE unwrapSharesLoop(_, _, _, _, _, _, _)
unwrapSharesLoop(c, acc, wrappedShares, kekInfos, keys, env, i) ==
    IF i > Len(wrappedShares) \/ acc.err # "" THEN acc
    ELSE unwrapSharesLoop(
             c,
             unwrapSharesAfter(
                 acc, unwrapShare(c, acc.s, wrappedShares[i], kekInfos[i], keys, i, env[i])),
             wrappedShares, kekInfos, keys, env, i + 1)

unwrapAndValidateShares(c, s, wrappedShares, kekInfos, keys, env) ==
    IF Len(wrappedShares) # Len(kekInfos)
    THEN [err |-> "number of shares to unwrap does not match number of KEKs",
          unwrappedShares |-> <<>>, s |-> s]
    ELSE [unwrapSharesLoop(c, [err |-> "", unwrappedShares |-> <<>>, s |-> s],
                           wrappedShares, kekInfos, keys, env, 1)
          EXCEPT !.s = runDeferred(@)]

uuidNewString == "uuid-1"

EncryptConfig(keyCfg) == [isNil |-> FALSE, keyConfig |-> keyCfg]
NilEncryptConfig == [isNil |-> TRUE, keyConfig |-> KeyConfig(<<>>, "unset", 0, 0)]

DecryptConfig(keyCfgs) == [isNil |-> FALSE, keyConfigs |-> keyCfgs]
NilDecryptConfig == [isNil |-> TRUE, keyConfigs |-> <<>>]

\* What a call leaves behind: the error ("" for nil), the *StetMetadata
\* (returned tells whether it is non-nil), the bytes written to `output`, the
\* calls made, and the StetClient's kmsClient.  matched and unwrapped show how
\* far Decrypt came: the index of the matching KeyConfig and the shares
\* unwrapAndValidateShares returned.
Outcome(err, keyUris, blobID, out, s, matched, unwrapped) ==
    [err |-> err, returned |-> err = "", keyUris |-> keyUris, blobID |-> blobID,
     out |-> out, log |-> s.log, kmsClient |-> s.kmsClient,
     matched |-> matched, unwrapped |-> unwrapped]

\* The state a call of Encrypt or Decrypt starts from.
CallStart(c) == [kmsClient |-> c.kmsClient, cancelled |-> FALSE, log |-> <<>>, deferred |-> 0]

\* Encrypt writing the header before the shares are wrapped; w is what
\* wrapShares returned.
EncryptHeaderFirstWrite(input, config, blobID, io, s0, w) ==
    LET metadata == Metadata(IF blobID = "" THEN uuidNewString ELSE blobID,
                             config.keyConfig, w.wrappedShares)
        h == WriteSTETHeader(1, io)
        mw == outputWrite(protoMarshal(metadata), io)
        a == AeadEncrypt(NewDEK, input, MetadataToAAD(metadata), io)
    IN  IF h.err # ""
        THEN Outcome("failed to write encrypted file header", <<>>, "", h.written, s0, 0, <<>>)
        ELSE IF w.err # ""
        THEN Outcome(IF w.err = "panic" THEN "panic" ELSE "error wrapping shares",
                     <<>>, "", h.written, w.s, 0, <<>>)
        ELSE IF mw.err # ""
        THEN Outcome("failed to write metadata", <<>>, "", h.written \o mw.written, w.s, 0, <<>>)
        ELSE IF a.err # ""
        THEN Outcome("error encrypting data", <<>>, "",
                     h.written \o mw.written \o a.written, w.s, 0, <<>>)
        ELSE Outcome("", w.keyURIs, metadata.blobID,
                     h.written \o mw.written \o a.written, w.s, 0, <<>>)

EncryptHeaderFirst(c, input, config, keys, blobID, env, io) ==
    LET sh == CreateDEKShares(NewDEK, config.keyConfig)
    IN  IF config.isNil
        THEN Outcome("nil EncryptConfig passed to Encrypt()", <<>>, "", <<>>, CallStart(c),
                     0, <<>>)
        ELSE IF sh.err # ""
        THEN Outcome("error creating DEK shares", <<>>, "", <<>>, CallStart(c), 0, <<>>)
        ELSE EncryptHeaderFirstWrite(
                 input, config, blobID, io, CallStart(c),
                 wrapShares(c, CallStart(c), sh.shares, config.keyConfig.kekInfos, keys, env))

\* EncryptWrite with the AAD serialised before the wrapped shares are put
\* into the metadata.
EncryptWriteEarlyAAD(input, config, blobID, io, w) ==
    LET id == IF blobID = "" THEN uuidNewString ELSE blobID
        metadata == Metadata(id, config.keyConfig, w.wrappedShares)
        metadataBytes == protoMarshal(metadata)
        h == WriteSTETHeader(Len(metadataBytes), io)
        mw == outputWrite(metadataBytes, io)
        a == AeadEncrypt(NewDEK, input, MetadataToAAD(Metadata(id, config.keyConfig, <<>>)), io)
    IN  IF w.err # ""
        THEN Outcome(IF w.err = "panic" THEN "panic" ELSE "error wrapping shares",
                     <<>>, "", <<>>, w.s, 0, <<>>)
        ELSE IF h.err # ""
        THEN Outcome("failed to write encrypted file header", <<>>, "", h.written, w.s, 0, <<>>)
        ELSE IF mw.err # ""
        THEN Outcome("failed to write metadata", <<>>, "", h.written \o mw.written, w.s, 0, <<>>)
        ELSE IF a.err # ""
        THEN Outcome("error encrypting data", <<>>, "",
                     h.written \o mw.written \o a.written, w.s, 0, <<>>)
        ELSE Outcome("", w.keyURIs, metadata.blobID,
                     h.written \o mw.written \o a.written, w.s, 0, <<>>)

\* EncryptWrite generating a UUID whether or not the caller gave a blob ID.
EncryptWriteFreshBlobID(input, config, blobID, io, w) ==
    LET metadata == Metadata(uuidNewString, config.keyConfig, w.wrappedShares)
        metadataBytes == protoMarshal(metadata)
        h == WriteSTETHeader(Len(metadataBytes), io)
        mw == outputWrite(metadataBytes, io)
        a == AeadEncrypt(NewDEK, input, MetadataToAAD(metadata), io)
    IN  IF w.err # ""
        THEN Outcome(IF w.err = "panic" THEN "panic" ELSE "error wrapping shares",
                     <<>>, "", <<>>, w.s, 0, <<>>)
        ELSE IF h.err # ""
        THEN Outcome("failed to write encrypted file header", <<>>, "", h.written, w.s, 0, <<>>)
        ELSE IF mw.err # ""
        THEN Outcome("failed to write metadata", <<>>, "", h.written \o mw.written, w.s, 0, <<>>)
        ELSE IF a.err # ""
        THEN Outcome("error encrypting data", <<>>, "",
                     h.written \o mw.written \o a.written, w.s, 0, <<>>)
        ELSE Outcome("", w.keyURIs, metadata.blobID,
                     h.written \o mw.written \o a.written, w.s, 0, <<>>)

\* Encrypt from the return of wrapShares (w) on: the metadata, and the three
\* writes to `output`.
EncryptWrite(input, config, blobID, io, w) ==
    LET metadata == Metadata(IF blobID = "" THEN uuidNewString ELSE blobID,
                             config.keyConfig, w.wrappedShares)
        metadataBytes == protoMarshal(metadata)
        h == WriteSTETHeader(Len(metadataBytes), io)
        mw == outputWrite(metadataBytes, io)
        a == AeadEncrypt(NewDEK, input, MetadataToAAD(metadata), io)
    IN  IF w.err # ""
        THEN Outcome(IF w.err = "panic" THEN "panic" ELSE "error wrapping shares",
                     <<>>, "", <<>>, w.s, 0, <<>>)
        ELSE IF h.err # ""
        THEN Outcome("failed to write encrypted file header", <<>>, "", h.written, w.s, 0, <<>>)
        ELSE IF mw.err # ""
        THEN Outcome("failed to write metadata", <<>>, "", h.written \o mw.written, w.s, 0, <<>>)
        ELSE IF a.err # ""
        THEN Outcome("error encrypting data", <<>>, "",
                     h.written \o mw.written \o a.written, w.s, 0, <<>>)
        ELSE Outcome("", w.keyURIs, metadata.blobID,
                     h.written \o mw.written \o a.written, w.s, 0, <<>>)

\* Encrypt going on to wrapShares with whatever CreateDEKShares returned, its
\* error unread.
EncryptUnvalidated(c, input, config, keys, blobID, env, io) ==
    LET sh == CreateDEKShares(NewDEK, config.keyConfig)
    IN  IF config.isNil
        THEN Outcome("nil EncryptConfig passed to Encrypt()", <<>>, "", <<>>, CallStart(c),
                     0, <<>>)
        ELSE EncryptWrite(
                 input, config, blobID, io,
                 wrapShares(c, CallStart(c), sh.shares, config.keyConfig.kekInfos, keys, env))

\* c is the StetClient: c.kmsClient and c.fake.
Encrypt(c, input, config, keys, blobID, env, io) ==
    LET sh == CreateDEKShares(NewDEK, config.keyConfig)
    IN  IF config.isNil
        THEN Outcome("nil EncryptConfig passed to Encrypt()", <<>>, "", <<>>, CallStart(c),
                     0, <<>>)
        ELSE IF sh.err # ""
        THEN Outcome("error creating DEK shares", <<>>, "", <<>>, CallStart(c), 0, <<>>)
        ELSE EncryptWrite(
                 input, config, blobID, io,
                 wrapShares(c, CallStart(c), sh.shares, config.keyConfig.kekInfos, keys, env))

\* matchingKeyConfig comparing the KekInfos alone.
matchingKeyConfigByKekInfos(keyConfigs, wanted) ==
    LET hits == {j \in 1..Len(keyConfigs) : keyConfigs[j].kekInfos = wanted.kekInfos}
    IN  IF hits = {} THEN 0 ELSE CHOOSE j \in hits : \A h \in hits : j <= h

\* The index of the first KeyConfig of the list equal to `wanted`, 0 if none.
matchingKeyConfig(keyConfigs, wanted) ==
    LET hits == {j \in 1..Len(keyConfigs) : protoEqual(keyConfigs[j], wanted)}
    IN  IF hits = {} THEN 0 ELSE CHOOSE j \in hits : \A h \in hits : j <= h

\* The URIs Decrypt returns: those of the unwrapped shares that have one.
RECURSIVE usedKeyURIs(_)
usedKeyURIs(unwrappedShares) ==
    IF unwrappedShares = <<>> THEN <<>>
    ELSE (IF Head(unwrappedShares).uri # EmptyUri THEN <<Head(unwrappedShares).uri>> ELSE <<>>)
         \o usedKeyURIs(Tail(unwrappedShares))

\* DecryptCombine returning the StetMetadata along with the error when the
\* shares do not combine.
DecryptCombineTellsOnError(input, keyCfg, metadata, io, found, u) ==
    LET combined == CombineUnwrappedShares(keyCfg, u.unwrappedShares)
        a == AeadDecrypt(combined.dek, input, MetadataToAAD(metadata), io)
    IN  IF u.err # ""
        THEN Outcome(IF u.err = "panic" THEN "panic"
                     ELSE "error unwrapping and validating shares",
                     <<>>, "", <<>>, u.s, found, <<>>)
        ELSE IF combined.err # ""
        THEN Outcome("error combining unwrapped shares", usedKeyURIs(u.unwrappedShares),
                     metadata.blobID, <<>>, u.s, found, u.unwrappedShares)
        ELSE IF a.err # ""
        THEN Outcome("error decrypting data", <<>>, "", <<>>, u.s, found, u.unwrappedShares)
        ELSE Outcome("", usedKeyURIs(u.unwrappedShares), metadata.blobID, a.written, u.s,
                     found, u.unwrappedShares)

\* Decrypt from the return of unwrapAndValidateShares (u) on, under the
\* matching KeyConfig, the one at index found.
DecryptCombine(input, keyCfg, metadata, io, found, u) ==
    LET combined == CombineUnwrappedShares(keyCfg, u.unwrappedShares)
        a == AeadDecrypt(combined.dek, input, MetadataToAAD(metadata), io)
    IN  IF u.err # ""
        THEN Outcome(IF u.err = "panic" THEN "panic"
                     ELSE "error unwrapping and validating shares",
                     <<>>, "", <<>>, u.s, found, <<>>)
        ELSE IF combined.err # ""
        THEN Outcome("error combining unwrapped shares", <<>>, "", <<>>, u.s, found,
                     u.unwrappedShares)
        ELSE IF a.err # ""
        THEN Outcome("error decrypting data", <<>>, "", <<>>, u.s, found, u.unwrappedShares)
        ELSE Outcome("", usedKeyURIs(u.unwrappedShares), metadata.blobID, a.written, u.s,
                     found, u.unwrappedShares)

\* Decrypt from the metadata read (rm) on; found is the index of the matching
\* KeyConfig.
DecryptMatched(c, input, config, keys, env, io, rm, found) ==
    IF rm.err # ""
    THEN Outcome("error reading metadata", <<>>, "", <<>>, CallStart(c), 0, <<>>)
    ELSE IF found = 0
    THEN Outcome("no known KeyConfig matches given data", <<>>, "", <<>>, CallStart(c), 0, <<>>)
    ELSE DecryptCombine(
             input, config.keyConfigs[found], rm.metadata, io, found,
             unwrapAndValidateShares(c, CallStart(c), rm.metadata.shares,
                                     config.keyConfigs[found].kekInfos, keys, env))

Decrypt(c, input, config, keys, env, io) ==
    IF config.isNil
    THEN Outcome("nil DecryptConfig passed to Decrypt()", <<>>, "", <<>>, CallStart(c), 0, <<>>)
    ELSE DecryptMatched(
             c, input, config, keys, env, io, ReadMetadata(input, io),
             matchingKeyConfig(config.keyConfigs, ReadMetadata(input, io).metadata.keyConfig))

(***************************************************************************)
(* The inputs of a call.                                                   *)
(***************************************************************************)

\* The (input, blobID) pairs Encrypt is called with: an empty blobID makes
\* Encrypt draw one.
EncryptInputs == {<<"p1", "">>, <<"p2", "blob-7">>}

ShamirOver(keks) ==
    UNION {{KeyConfig(ks, "Shamir", n, k) : ks \in [1..n -> keks], k \in 2..n} :
           n \in 2..MaxShares}

\* The KeyConfigs CreateDEKShares accepts, over KekInfos that can wrap.
ValidKeyConfigs ==
    {KeyConfig(<<k>>, "NoSplit", 0, 0) : k \in GoodKeks} \cup ShamirOver(ShamirKeks)

\* KeyConfigs with a KekInfo nothing can be wrapped under.
UnwrappableKeyConfigs ==
    {KeyConfig(<<k>>, "NoSplit", 0, 0) : k \in BadKeks}
    \cup {KeyConfig(<<RsaKek("fpA"), k>>, "Shamir", 2, 2) : k \in BadKeks}

\* KeyConfigs CreateDEKShares rejects.
InvalidKeyConfigs ==
    LET kS == UriKek(GcpUri("kS"))
    IN  {KeyConfig(<<kS, kS>>, "NoSplit", 0, 0),
         KeyConfig(<<>>, "NoSplit", 0, 0),
         KeyConfig(<<kS>>, "Shamir", 2, 2),
         KeyConfig(<<kS, kS>>, "Shamir", 2, 1),
         KeyConfig(<<kS, kS>>, "Shamir", 2, 3),
         KeyConfig(<<kS>>, "unset", 0, 0)}

EncryptConfigs ==
    {EncryptConfig(k) : k \in ValidKeyConfigs \cup UnwrappableKeyConfigs \cup InvalidKeyConfigs}
    \cup {NilEncryptConfig}

\* What can go wrong while a share is wrapped or unwrapped under `kek`.
LookupFaults == {"initErr", "getKeyErr", "disabled", "unspecified", "vpc"}
KmsFaults == {"rpcErr", "cancel", "badCrc"}
EkmFaults == {"noExtOptions", "extUriBad", "extUriEmpty", "tokenErr", "sessErr", "confErr", "cancel", "endErr"}

FaultsOf(kek, wrapping) ==
    CASE kek.type = "RsaFingerprint" -> {"oaepErr"}
      [] kek.type = "KekUri" /\ kek.uri.scheme = gcpKeyPrefix ->
           IF ProtectionLevelOf(kek.uri.path) = "EXTERNAL"
           THEN LookupFaults \cup EkmFaults \cup (IF wrapping THEN {} ELSE {"wrongPlain"})
           ELSE LookupFaults \cup KmsFaults
                \cup (IF wrapping THEN {"unverified"} ELSE {"wrongPlain"})
      [] OTHER -> {}

\* The plain way for a share under `kek` to be lost.
PlainFault(kek) ==
    CASE kek.type = "RsaFingerprint" -> "oaepErr"
      [] kek.type = "KekUri" /\ kek.uri.scheme = gcpKeyPrefix ->
           IF ProtectionLevelOf(kek.uri.path) = "EXTERNAL" THEN "confErr" ELSE "rpcErr"
      [] OTHER -> "ok"

\* The fault vectors for `keks` with at most `budget` faulty shares: one of
\* the faulty shares meets any of its faults, the others are plainly lost.
FaultVectors(keks, wrapping, budget) ==
    LET n == Len(keks)
        faulty == {S \in SUBSET (1..n) : S # {} /\ Cardinality(S) <= budget}
    IN  {[i \in 1..n |-> "ok"]}
        \cup UNION {UNION {{[i \in 1..n |-> IF i = r THEN f
                                           ELSE IF i \in S THEN PlainFault(keks[i])
                                           ELSE "ok"] :
                              f \in FaultsOf(keks[r], wrapping)} : r \in S} : S \in faulty}

\* The key files of the caller: the one with fingerprint fpA is there, is
\* missing, or comes after a file that cannot be read.
KeyFaults == {"noKey", "unreadable"}
KeysOf(k) ==
    LET pub == KeyFile(TRUE, "PUBLIC KEY", "fpA")
        priv == KeyFile(TRUE, "RSA PRIVATE KEY", "fpA")
        pubB == KeyFile(TRUE, "PUBLIC KEY", "fpB")
        privB == KeyFile(TRUE, "RSA PRIVATE KEY", "fpB")
        gone == KeyFile(FALSE, "", "")
    IN  CASE k = "noKey" -> AsymmetricKeys(<<pubB>>, <<privB>>)
          [] k = "unreadable" -> AsymmetricKeys(<<gone, pub>>, <<gone, priv>>)
          [] OTHER -> AsymmetricKeys(<<pubB, pub>>, <<privB, priv>>)

\* What the world does during one call: a fault per share, one for the
\* streams, one for the key files; at most `budget` of them are not "ok".
World(env, io, keys) == [env |-> env, io |-> io, keys |-> keys]

Worlds(keks, wrapping, ioFaults, budget) ==
    {World(v, "ok", "ok") : v \in FaultVectors(keks, wrapping, budget)}
    \cup (IF budget = 0 THEN {}
          ELSE {World(v, x, "ok") : x \in ioFaults,
                                    v \in FaultVectors(keks, wrapping, budget - 1)}
               \cup {World(v, "ok", k) : k \in KeyFaults,
                                         v \in FaultVectors(keks, wrapping, budget - 1)})

\* wrapShares returns at the first fault it meets: one is all a call sees.
EncryptWorlds(keyCfg) ==
    Worlds(keyCfg.kekInfos, TRUE, {"headerErr", "metaErr", "aeadErr"}, 1)

\* Decrypt goes on after a faulty share: the world gives up to one fault more
\* than the threshold leaves room for.
FaultBudget(keyCfg) ==
    IF keyCfg.alg = "Shamir" THEN keyCfg.shares - keyCfg.threshold + 1 ELSE 1

DecryptWorlds(keyCfg) ==
    Worlds(keyCfg.kekInfos, FALSE, {"readErr", "aeadErr"}, FaultBudget(keyCfg))

\* A KeyConfig that differs from keyCfg in its splitting parameters alone.
Near(keyCfg) == [keyCfg EXCEPT !.threshold = @ + 1]

\* The DecryptConfigs tried on a container written under keyCfg, each with
\* the worlds it is tried in: every world for the plain one, the faultless
\* world for the others.
DecryptInputsFor(keyCfg) ==
    {<<DecryptConfig(<<keyCfg>>), w>> : w \in DecryptWorlds(keyCfg)}
    \cup {<<d, World([j \in 1..Len(keyCfg.kekInfos) |-> "ok"], "ok", "ok")>> :
            d \in {DecryptConfig(<<Near(keyCfg), keyCfg>>),
                   DecryptConfig(<<Near(keyCfg), keyCfg, keyCfg>>),
                   DecryptConfig(<<Near(keyCfg)>>),
                   DecryptConfig(<<>>),
                   NilDecryptConfig}}

(***************************************************************************)
(* The state: a StetClient, the container on disk, and the call at hand.   *)
(***************************************************************************)

VARIABLES
    kmsClient,                \* StetClient.kmsClient
    fakeSecureSessionClient,  \* whether StetClient.fakeSecureSessionClient is set
                              \* (tests set it; a StetClient{} leaves it unset)
    disk,                     \* the container the last successful Encrypt wrote
    plaintext,                \* the input that Encrypt read
    pc,                       \* "idle", or "returned" right after a call
    call,                     \* the inputs of the call that returned
    result,                   \* what it left behind
    conformance               \* cmd/conformance: the BeginSession and Handshake
                              \* test cases main has run, and whether it has
                              \* panicked

vars == <<kmsClient, fakeSecureSessionClient, disk, plaintext, pc, call, result, conformance>>

Call(op, input, config, blobID, world) ==
    [op |-> op, input |-> input, isNil |-> config.isNil,
     keyConfig |-> IF op = "Encrypt" THEN config.keyConfig ELSE NilEncryptConfig.keyConfig,
     keyConfigs |-> IF op = "Decrypt" THEN config.keyConfigs ELSE <<>>,
     blobID |-> blobID, env |-> world.env, io |-> world.io, keys |-> world.keys]

NoCall == Call("", "", NilDecryptConfig, "", World(<<>>, "ok", "ok"))

NoOutcome ==
    Outcome("", <<>>, "", <<>>, [log |-> <<>>, kmsClient |-> "nil"], 0, <<>>)

StetClient == [kmsClient |-> kmsClient, fake |-> fakeSecureSessionClient]

\* main of cmd/conformance before its first test case.
NoTestRun == [ran |-> <<>>, ran2 |-> <<>>, panicked |-> FALSE]

Init ==
    /\ kmsClient = "nil"
    /\ fakeSecureSessionClient = FALSE
    /\ disk = <<>>
    /\ plaintext = ""
    /\ pc = "idle"
    /\ call = NoCall
    /\ result = NoOutcome
    /\ conformance = NoTestRun

\* A caller encrypts `input` into an empty output.
EncryptCall ==
    /\ pc = "idle"
    /\ disk = <<>>
    /\ \E config \in EncryptConfigs, in \in EncryptInputs :
         \E world \in EncryptWorlds(config.keyConfig) :
           /\ result' = Encrypt(StetClient, in[1], config, KeysOf(world.keys), in[2],
                                world.env, world.io)
           /\ plaintext' = IF result'.err = "" THEN in[1] ELSE ""
           /\ call' = Call("Encrypt", in[1], config, in[2], world)
    /\ kmsClient' = result'.kmsClient
    /\ disk' = IF result'.err = "" THEN result'.out ELSE <<>>
    /\ pc' = "returned"
    /\ UNCHANGED <<fakeSecureSessionClient, conformance>>

\* A caller decrypts the container on disk.
DecryptCall ==
    /\ pc = "idle"
    /\ disk # <<>>
    /\ \E in \in DecryptInputsFor(disk[2].body[2].keyConfig) :
         /\ result' = Decrypt(StetClient, disk, in[1], KeysOf(in[2].keys),
                              in[2].env, in[2].io)
         /\ call' = Call("Decrypt", "", in[1], "", in[2])
    /\ kmsClient' = result'.kmsClient
    /\ pc' = "returned"
    /\ UNCHANGED <<fakeSecureSessionClient, conformance, disk, plaintext>>

\* The caller takes the result; the client is ready for the next call.
Return ==
    /\ pc = "returned"
    /\ pc' = "idle"
    /\ call' = NoCall
    /\ result' = NoOutcome
    /\ UNCHANGED <<kmsClient, fakeSecureSessionClient, conformance, disk, plaintext>>

\* The caller goes on with a StetClient of its own making, as a process that
\* decrypts what another process encrypted does.
NewStetClient ==
    /\ pc = "idle"
    /\ kmsClient # "nil"
    /\ kmsClient' = "nil"
    /\ UNCHANGED <<fakeSecureSessionClient, conformance, disk, plaintext, pc, call, result>>

Next == EncryptCall \/ DecryptCall \/ Return \/ NewStetClient

Spec == Init /\ [][Next]_vars

(***************************************************************************)
(* What the state says about the call that has just returned.              *)
(***************************************************************************)

AfterEncrypt == pc = "returned" /\ call.op = "Encrypt"
AfterDecrypt == pc = "returned" /\ call.op = "Decrypt"

\* The world answered every request of the call as it should.
AllOk ==
    /\ call.io = "ok"
    /\ call.keys = "ok"
    /\ \A j \in DOMAIN call.env : call.env[j] = "ok"

\* The Metadata of the container on disk.
OnDisk == disk[2].body[2]

\* Whether the call did `op` for share i, and how many times.
Did(op, i) == \E j \in DOMAIN result.log : result.log[j] = Ev(op, i)
Times(op, i) == Cardinality({j \in DOMAIN result.log : result.log[j] = Ev(op, i)})

\* The DecryptConfig of the call holds the KeyConfig of the container.
ConfigKnown ==
    /\ ~call.isNil
    /\ \E j \in DOMAIN call.keyConfigs : call.keyConfigs[j] = OnDisk.keyConfig

\* The KMS client of the StetClient is none that NewKeyManagementClient
\* failed to create.
ClientSound == result.kmsClient # "nilptr"

(***************************************************************************)
(* C1.  Round trip.                                                        *)
(***************************************************************************)

\* C1: when every backend answers as it should, Encrypt under a valid
\* KeyConfig succeeds and writes a complete container, and Decrypt of the
\* container on disk under a DecryptConfig that holds its KeyConfig succeeds
\* and writes exactly the input Encrypt read.
RoundTrip ==
    /\ (AfterEncrypt /\ ~call.isNil /\ call.keyConfig \in ValidKeyConfigs
            /\ AllOk /\ ClientSound)
         => /\ result.err = ""
            /\ ValidContainer(result.out)
    /\ (AfterDecrypt /\ ConfigKnown /\ AllOk /\ ClientSound)
         => /\ result.err = ""
            /\ result.returned
            /\ result.out = <<plaintext>>

\* A container split 2-of-3 over an RSA key, a Cloud KMS key and an external
\* key comes back as the input it was made from.
RoundTripWitness ==
    /\ AfterDecrypt /\ ConfigKnown /\ AllOk
    /\ OnDisk.keyConfig.alg = "Shamir"
    /\ OnDisk.keyConfig.threshold = 2
    /\ OnDisk.keyConfig.kekInfos =
         <<RsaKek("fpA"), UriKek(GcpUri("kS")), UriKek(GcpUri("kE"))>>
    /\ plaintext = "p2"
    /\ result.err = ""
    /\ result.out = <<"p2">>

(***************************************************************************)
(* C2, C3.  The threshold on Decrypt and the shares that fail.             *)
(***************************************************************************)

\* The KeyConfig Decrypt matched, and the shares it unwrapped and verified.
Matched == call.keyConfigs[result.matched]
Verified == {i \in DOMAIN call.env : Did("unwrapped", i)}

\* C2: for an untampered container under Shamir k-of-n, Decrypt succeeds if
\* and only if at least k shares were unwrapped and hash-verified; with fewer
\* it fails and writes no plaintext.
ThresholdRule ==
    (AfterDecrypt /\ result.matched # 0 /\ Matched.alg = "Shamir"
        /\ call.io = "ok" /\ ClientSound)
    => /\ (result.err = "") <=> (Cardinality(Verified) >= Matched.threshold)
       /\ Cardinality(Verified) < Matched.threshold
            => (result.err # "" /\ ~result.returned /\ result.out = <<>>)

\* Two of three shares are unwrapped and verified under their RSA key, the
\* threshold is two, and Decrypt fails for the third share's disabled KEK.
ThresholdMetYetFailed ==
    /\ AfterDecrypt /\ result.matched # 0 /\ call.io = "ok" /\ ClientSound
    /\ Matched = KeyConfig(<<RsaKek("fpA"), RsaKek("fpA"), UriKek(GcpUri("kS"))>>,
                           "Shamir", 3, 2)
    /\ call.env = <<"ok", "ok", "disabled">>
    /\ Verified = {1, 2}
    /\ result.err = "error unwrapping and validating shares"
    /\ result.out = <<>>

\* The faults that make the KEK metadata lookup of a share fail.
LookupFailures == {"getKeyErr", "disabled", "unspecified", "noExtOptions"}

\* C3: when the KEK metadata lookup of share i fails, the shares after i
\* are still attempted, and Decrypt succeeds if the shares that unwrap meet
\* the threshold.
PerShareFailuresContinue ==
    (AfterDecrypt /\ result.matched # 0 /\ ClientSound)
    => \A i \in DOMAIN call.env :
         (call.env[i] \in LookupFailures /\ Did("GetCryptoKey", i))
         => /\ \A j \in DOMAIN call.env : j > i => Did("attempt", j)
            /\ result.err # "error unwrapping and validating shares"

\* The lookup of the first share's key fails (GetCryptoKey error); the two
\* RSA shares after it, enough for the threshold, are never attempted.
LookupFailureEndsDecrypt ==
    /\ AfterDecrypt /\ result.matched # 0 /\ ClientSound
    /\ Matched = KeyConfig(<<UriKek(GcpUri("kS")), RsaKek("fpA"), RsaKek("fpA")>>,
                           "Shamir", 3, 2)
    /\ call.env = <<"getKeyErr", "ok", "ok">>
    /\ call.io = "ok" /\ call.keys = "ok"
    /\ Did("GetCryptoKey", 1)
    /\ ~Did("attempt", 2) /\ ~Did("attempt", 3)
    /\ result.err = "error unwrapping and validating shares"

(***************************************************************************)
(* C4, C5.  The end of a secure session.                                   *)
(***************************************************************************)

\* A secure session was established for share i: the call went on to
\* ConfidentialWrap or ConfidentialUnwrap.
SessionFor(i) == Did("ConfidentialWrap", i) \/ Did("ConfidentialUnwrap", i)

\* C4: every secure session established during a call is ended exactly
\* once, also when ConfidentialWrap or ConfidentialUnwrap fails.
OneEndSessionPerSession ==
    pc = "returned"
    => \A i \in DOMAIN call.env : SessionFor(i) => Times("EndSession", i) = 1

\* ConfidentialWrap fails in an established session, and Encrypt returns
\* without EndSession.
SessionLeftOpen ==
    /\ AfterEncrypt
    /\ \E i \in DOMAIN call.env :
         /\ call.env[i] = "confErr"
         /\ Did("EstablishSecureSession", i)
         /\ Did("ConfidentialWrap", i)
         /\ Times("EndSession", i) = 0

\* C5: an EndSession that fails after a successful ConfidentialWrap or
\* ConfidentialUnwrap costs nothing: the share is wrapped and Encrypt does
\* not fail, the share is unwrapped and kept on Decrypt.
EndSessionFailureIsWarning ==
    /\ AfterEncrypt
         => \A i \in DOMAIN call.env :
              (call.env[i] = "endErr" /\ Did("EndSession", i))
              => (Did("wrapped", i) /\ result.err = "")
    /\ (AfterDecrypt /\ result.matched # 0)
         => \A i \in DOMAIN call.env :
              (call.env[i] = "endErr" /\ Did("EndSession", i)) => Did("unwrapped", i)

\* ConfidentialWrap succeeds, EndSession fails, and Encrypt under a single
\* external KEK fails with nothing written.
EndSessionFailureFailsEncrypt ==
    /\ AfterEncrypt
    /\ call.keyConfig = KeyConfig(<<UriKek(GcpUri("kE"))>>, "NoSplit", 0, 0)
    /\ call.env = <<"endErr">>
    /\ Did("ConfidentialWrap", 1) /\ Did("EndSession", 1)
    /\ ~Did("wrapped", 1)
    /\ result.err = "error wrapping shares"
    /\ result.out = <<>>

(***************************************************************************)
(* C6, C7.  What Encrypt writes, and when.                                 *)
(***************************************************************************)

\* C6: when share i cannot be wrapped (its turn of the loop starts and does
\* not append a wrapped share), Encrypt returns an error, nothing is done
\* for any share after i, and nothing has been written to the output.
WrapFailureIsFatal ==
    AfterEncrypt
    => \A i \in DOMAIN call.env :
         (Did("attempt", i) /\ ~Did("wrapped", i))
         => /\ result.err # ""
            /\ ~result.returned
            /\ result.out = <<>>
            /\ \A j \in DOMAIN result.log : result.log[j].share <= i

\* The first of three shares is wrapped, the second is not (for any of the
\* faults of its KEK), and the third is never attempted.
WrapFailureWitness ==
    /\ AfterEncrypt
    /\ Len(call.keyConfig.kekInfos) = 3
    /\ call.env[2] # "ok"
    /\ Did("wrapped", 1)
    /\ Did("attempt", 2) /\ ~Did("wrapped", 2)
    /\ ~Did("attempt", 3)
    /\ result.err = "error wrapping shares"
    /\ result.out = <<>>

\* Every share of the KeyConfig of the call has been wrapped.
AllWrapped ==
    /\ call.keyConfig.kekInfos # <<>>
    /\ \A i \in 1..Len(call.keyConfig.kekInfos) : Did("wrapped", i)

KeyUrisOfConsumedShares ==
    (AfterDecrypt /\ result.err = "")
    => result.keyUris = usedKeyURIs(SharesConsumed(Matched, result.unwrapped))

\* All three shares of a 2-of-3 container unwrap; Decrypt returns the URI of
\* the third, which combine does not consume.
KeyUriOfUnusedShare ==
    /\ AfterDecrypt /\ result.err = "" /\ AllOk
    /\ Matched = KeyConfig(<<RsaKek("fpA"), UriKek(GcpUri("kS")), UriKek(GcpUri("kE"))>>,
                           "Shamir", 3, 2)
    /\ Len(result.unwrapped) = 3
    /\ usedKeyURIs(SharesConsumed(Matched, result.unwrapped)) = <<GcpUri("kS")>>
    /\ result.keyUris = <<GcpUri("kS"), ExternalKeyUri>>

(***************************************************************************)
(* C9.  Cancellation.                                                      *)
(***************************************************************************)

\* The requests that go out to Cloud KMS, the token issuer or the external
\* key manager, EndSession aside.
Requests ==
    {"NewKeyManagementClient", "GetCryptoKey", "Encrypt", "Decrypt",
     "GenerateTokenWithAudience", "EstablishSecureSession",
     "ConfidentialWrap", "ConfidentialUnwrap"}

\* The place in the log of the request of share i that met the cancellation.
CancelledAt(i) ==
    {p \in DOMAIN result.log :
        /\ result.log[p].share = i
        /\ result.log[p].op \in {"Encrypt", "Decrypt", "ConfidentialWrap", "ConfidentialUnwrap"}}

\* C9: when the context is cancelled during a Cloud KMS or secure-session
\* request for share i, the call returns an error, no later share is
\* attempted and no request other than EndSession goes out afterwards.
CancelAborts ==
    pc = "returned"
    => \A i \in DOMAIN call.env :
         (call.env[i] = "cancel" /\ CancelledAt(i) # {})
         => /\ result.err # ""
            /\ \A j \in DOMAIN call.env : j > i => ~Did("attempt", j)
            /\ \A p \in CancelledAt(i) : \A q \in DOMAIN result.log :
                  q > p => result.log[q].op \notin Requests

\* The context is cancelled during the Cloud KMS Decrypt of the first share;
\* the two RSA shares after it are unwrapped and Decrypt returns the
\* plaintext and no error.
CancelledYetDecrypted ==
    /\ AfterDecrypt /\ result.matched # 0
    /\ Matched = KeyConfig(<<UriKek(GcpUri("kS")), RsaKek("fpA"), RsaKek("fpA")>>,
                           "Shamir", 3, 2)
    /\ call.env = <<"cancel", "ok", "ok">>
    /\ Did("Decrypt", 1)
    /\ Verified = {2, 3}
    /\ result.err = ""
    /\ result.out = <<plaintext>>

(***************************************************************************)
(* C10.  The KeyConfig Decrypt uses.                                       *)
(***************************************************************************)

\* The places of the DecryptConfig that hold the KeyConfig of the container.
Hits == {j \in DOMAIN call.keyConfigs : call.keyConfigs[j] = OnDisk.keyConfig}

\* C10: Decrypt uses the first KeyConfig of the DecryptConfig equal to the
\* KeyConfig of the container; when none is, it fails without attempting a
\* share, without a request to Cloud KMS or the external key manager, and
\* without writing to the output.
FirstMatchingKeyConfig ==
    (AfterDecrypt /\ ~call.isNil /\ call.io # "readErr")
    => /\ Hits # {} => (result.matched \in Hits /\ \A h \in Hits : result.matched <= h)
       /\ Hits = {} => /\ result.err = "no known KeyConfig matches given data"
                       /\ ~result.returned
                       /\ result.matched = 0
                       /\ result.log = <<>>
                       /\ result.unwrapped = <<>>
                       /\ result.out = <<>>

\* The KeyConfig of the container is the second and the third of the
\* DecryptConfig: Decrypt uses the second, and decrypts.
SecondKeyConfigUsed ==
    /\ AfterDecrypt /\ ~call.isNil
    /\ Len(call.keyConfigs) = 3
    /\ Hits = {2, 3}
    /\ result.matched = 2
    /\ result.err = ""
    /\ result.out = <<plaintext>>

(***************************************************************************)
(* C11, C12.  The metadata bytes and the AAD.                              *)
(***************************************************************************)

\* The container as a writer that encodes the same Metadata in another way
\* leaves it: the metadata in that encoding, the stream sealed under the
\* very bytes written.
Reencoded(container) ==
    <<container[1],
      MetadataPart(Serialised("reordered", protoUnmarshal(container[2].body))),
      AeadPart(container[3].body[1],
               Serialised("reordered", protoUnmarshal(container[2].body)),
               container[3].body[3])>>

\* The container handed to Decrypt comes from such a writer.
ForeignWriter ==
    /\ pc = "idle"
    /\ disk # <<>>
    /\ disk[2].body = protoMarshal(protoUnmarshal(disk[2].body))
    /\ disk' = Reencoded(disk)
    /\ UNCHANGED <<kmsClient, fakeSecureSessionClient, conformance, plaintext, pc, call, result>>

NextAnyContainer == Next \/ ForeignWriter

\* Encrypt and Decrypt, with Decrypt also reading containers that Encrypt
\* did not write.
SpecAnyContainer == Init /\ [][NextAnyContainer]_vars

\* The stream of the container on disk is sealed under the metadata bytes
\* the container carries.
SealedUnderItsBytes == disk[3].body[2] = disk[2].body

\* C11: Decrypt gives the AEAD the metadata bytes it read as AAD, not a new
\* serialisation of the parsed Metadata: with every backend answering as it
\* should, the stream of a container sealed under the bytes it carries opens
\* and Decrypt returns the plaintext.
AadIsBytesRead ==
    (AfterDecrypt /\ ConfigKnown /\ AllOk /\ ClientSound /\ SealedUnderItsBytes)
    => /\ result.err = ""
       /\ result.out = <<plaintext>>

\* A container whose metadata bytes are not what MetadataToAAD writes for
\* them: every share is unwrapped and verified, and the stream does not open.
ReserialisedAadRejected ==
    /\ AfterDecrypt /\ ConfigKnown /\ AllOk /\ ClientSound /\ SealedUnderItsBytes
    /\ disk[2].body = Serialised("reordered", OnDisk)
    /\ MetadataToAAD(OnDisk) # disk[2].body
    /\ \A i \in DOMAIN call.env : Did("unwrapped", i)
    /\ result.err = "error decrypting data"
    /\ result.out = <<>>

kekMetadataFor(s, kekInfo, j, f) ==
    IF kekInfo.type = "KekUri" THEN getKekURIMetadata(s, kekInfo, j, f)
    ELSE [err |-> "", kmd |-> NoKekMetadata, s |-> s]

\* protectionLevelsAndUris after the turn that returned m.
kekMetadatasAfter(acc, m) ==
    IF m.err # "" THEN [err |-> m.err, kekMetadatas |-> <<>>, s |-> m.s]
    ELSE [err |-> "", kekMetadatas |-> Append(acc.kekMetadatas, m.kmd), s |-> m.s]

RECURSIVE protectionLevelsAndUrisLoop(_, _, _, _)
protectionLevelsAndUrisLoop(acc, kekInfos, env, j) ==
    IF j > Len(kekInfos) \/ acc.err # "" THEN acc
    ELSE protectionLevelsAndUrisLoop(
             kekMetadatasAfter(acc, kekMetadataFor(acc.s, kekInfos[j], j, env[j])),
             kekInfos, env, j + 1)

protectionLevelsAndUris(s, kekInfos, env) ==
    protectionLevelsAndUrisLoop([err |-> "", kekMetadatas |-> <<>>, s |-> s], kekInfos, env, 1)

\* kekMetadatas as the loop has it after `if kekMetadatas == nil { ... }`:
\* looked up now, or as an earlier turn left it.  known is <<>> for nil.
kekMetadatasOnce(s, known, kekInfos, env) ==
    IF known = <<>> THEN protectionLevelsAndUris(s, kekInfos, env)
    ELSE [err |-> "", kekMetadatas |-> known, s |-> s]

\* How a turn of the loop of unwrapAndValidateShares ends: with the error
\* the function returns, or with the share appended.
unwrapFailed000(e, s) ==
    [err |-> e, unwrappedShares |-> <<>>, kekMetadatas |-> <<>>, s |-> s]

unwrapValidated000(acc, share, wrapped, kmds, s, i) ==
    IF ValidateShare(share, wrapped.hash)
    THEN [err |-> "", unwrappedShares |-> Append(acc.unwrappedShares, share),
          kekMetadatas |-> kmds, s |-> Logged(s, "unwrapped", i)]
    ELSE unwrapFailed000("unwrapped share does not have the expected hash", s)

\* case *configpb.KekInfo_RsaFingerprint.
unwrapRsaShare000(acc, s, wrapped, kek, keys, i, f) ==
    LET key == privateKeyForRSAFingerprint(kek, keys)
        oaep == DecryptOAEP(key.fp, wrapped.share, f)
    IN  IF key.err # ""
        THEN unwrapFailed000("failed to find public key for RSA fingerprint", s)
        ELSE IF oaep.err
        THEN unwrapFailed000("error unwrapping key share", Logged(s, "DecryptOAEP", i))
        ELSE unwrapValidated000(acc, oaep.plaintext, wrapped, acc.kekMetadatas,
                                Logged(s, "DecryptOAEP", i), i)

\* r is what unwrapKMSShare or ekmSecureSessionUnwrap returned.
unwrapReturned000(acc, r, e, wrapped, kmds, i) ==
    IF r.err # "" THEN unwrapFailed000(e, r.s)
    ELSE unwrapValidated000(acc, r.share, wrapped, kmds, r.s, i)

\* switch pl := kekMetadatas[i].protectionLevel; pl is what
\* kekMetadatasOnce returned.
unwrapByProtectionLevel000(c, acc, pl, wrapped, i, f) ==
    IF pl.err # ""
    THEN unwrapFailed000(IF pl.err = "panic" THEN "panic"
                         ELSE "Error retrieving KEK Metadata", pl.s)
    ELSE IF pl.kekMetadatas[i].protectionLevel \in {"SOFTWARE", "HSM"}
    THEN unwrapReturned000(
             acc, unwrapKMSShare(pl.s, wrapped.share, pl.kekMetadatas[i].resourceName, i, f),
             "error unwrapping key share", wrapped, pl.kekMetadatas, i)
    ELSE IF pl.kekMetadatas[i].protectionLevel = "EXTERNAL"
    THEN unwrapReturned000(
             acc, ekmSecureSessionUnwrap(c, pl.s, wrapped.share, pl.kekMetadatas[i], i, f),
             "error unwrapping with external EKM", wrapped, pl.kekMetadatas, i)
    ELSE unwrapFailed000("unsupported protection level", pl.s)

\* case *configpb.KekInfo_KekUri; init is what initializeKMSClient returned.
unwrapKekUriShare000(c, acc, init, wrapped, kekInfos, env, i) ==
    IF init.err # "" THEN unwrapFailed000("error initializing KMS Client", init.s)
    ELSE unwrapByProtectionLevel000(
             c, acc,
             kekMetadatasOnce([init.s EXCEPT !.deferred = @ + 1], acc.kekMetadatas,
                              kekInfos, env),
             wrapped, i, env[i])

\* One turn of the loop of unwrapAndValidateShares, for share i.
unwrapShare000(c, acc, wrapped, kekInfos, keys, env, i) ==
    CASE kekInfos[i].type = "RsaFingerprint" ->
           unwrapRsaShare000(acc, Logged(acc.s, "attempt", i), wrapped, kekInfos[i], keys,
                             i, env[i])
      [] kekInfos[i].type = "KekUri" ->
           unwrapKekUriShare000(c, acc,
                                initializeKMSClient(Logged(acc.s, "attempt", i), i, env[i]),
                                wrapped, kekInfos, env, i)
      [] OTHER -> unwrapFailed000("unsupported KekInfo type", Logged(acc.s, "attempt", i))

RECURSIVE unwrapSharesLoop000(_, _, _, _, _, _, _)
unwrapSharesLoop000(c, acc, wrappedShares, kekInfos, keys, env, i) ==
    IF i > Len(wrappedShares) \/ acc.err # "" THEN acc
    ELSE unwrapSharesLoop000(
             c, unwrapShare000(c, acc, wrappedShares[i], kekInfos, keys, env, i),
             wrappedShares, kekInfos, keys, env, i + 1)

unwrapAndValidateShares000(c, s, wrappedShares, kekInfos, keys, env) ==
    IF Len(wrappedShares) # Len(kekInfos)
    THEN [err |-> "number of shares to unwrap does not match number of KEKs",
          unwrappedShares |-> <<>>, kekMetadatas |-> <<>>, s |-> s]
    ELSE [unwrapSharesLoop000(
              c, [err |-> "", unwrappedShares |-> <<>>, kekMetadatas |-> <<>>, s |-> s],
              wrappedShares, kekInfos, keys, env, 1)
          EXCEPT !.s = runDeferred(@)]

\* How a turn of the loop of wrapShares ends.
wrapFailed000(e, s) ==
    [err |-> e, wrappedShares |-> <<>>, kekMetadatas |-> <<>>, s |-> s]

wrapAppended000(acc, blob, share, kmds, s, i) ==
    [err |-> "",
     wrappedShares |-> Append(acc.wrappedShares, WrappedShare(blob, HashShare(share))),
     kekMetadatas |-> kmds, s |-> Logged(s, "wrapped", i)]

\* case *configpb.KekInfo_RsaFingerprint.
wrapRsaShare000(acc, s, share, kek, keys, i, f) ==
    LET key == publicKeyForRSAFingerprint(kek, keys)
        oaep == EncryptOAEP(key.fp, share, f)
    IN  IF key.err # ""
        THEN wrapFailed000("failed to find public key for RSA fingerprint", s)
        ELSE IF oaep.err
        THEN wrapFailed000("error wrapping key share", Logged(s, "EncryptOAEP", i))
        ELSE wrapAppended000(acc, oaep.blob, share, acc.kekMetadatas,
                             Logged(s, "EncryptOAEP", i), i)

\* r is what wrapKMSShare or ekmSecureSessionWrap returned.
wrapReturned000(acc, r, e, share, kmds, i) ==
    IF r.err # "" THEN wrapFailed000(e, r.s)
    ELSE wrapAppended000(acc, r.blob, share, kmds, r.s, i)

\* switch pl := kekMetadatas[i].protectionLevel; pl is what
\* kekMetadatasOnce returned.
wrapByProtectionLevel000(c, acc, pl, share, i, f) ==
    IF pl.err # ""
    THEN wrapFailed000(IF pl.err = "panic" THEN "panic"
                       ELSE "Error retrieving KEK Metadata", pl.s)
    ELSE IF pl.kekMetadatas[i].protectionLevel \in {"SOFTWARE", "HSM"}
    THEN wrapReturned000(
             acc, wrapKMSShare(pl.s, share, pl.kekMetadatas[i].resourceName, i, f),
             "error wrapping key share", share, pl.kekMetadatas, i)
    ELSE IF pl.kekMetadatas[i].protectionLevel = "EXTERNAL"
    THEN wrapReturned000(
             acc, ekmSecureSessionWrap(c, pl.s, share, pl.kekMetadatas[i], i, f),
             "error wrapping with secure session", share, pl.kekMetadatas, i)
    ELSE wrapFailed000("unsupported protection level", pl.s)

\* case *configpb.KekInfo_KekUri; init is what initializeKMSClient returned.
wrapKekUriShare000(c, acc, init, share, kekInfos, env, i) ==
    IF init.err # "" THEN wrapFailed000("error initializing KMS Client", init.s)
    ELSE wrapByProtectionLevel000(
             c, acc,
             kekMetadatasOnce([init.s EXCEPT !.deferred = @ + 1], acc.kekMetadatas,
                              kekInfos, env),
             share, i, env[i])

\* One turn of the loop of wrapShares, for share i.
wrapShare000(c, acc, share, kekInfos, keys, env, i) ==
    CASE kekInfos[i].type = "RsaFingerprint" ->
           wrapRsaShare000(acc, Logged(acc.s, "attempt", i), share, kekInfos[i], keys,
                           i, env[i])
      [] kekInfos[i].type = "KekUri" ->
           wrapKekUriShare000(c, acc,
                              initializeKMSClient(Logged(acc.s, "attempt", i), i, env[i]),
                              share, kekInfos, env, i)
      [] OTHER -> wrapFailed000("unsupported KekInfo type", Logged(acc.s, "attempt", i))

RECURSIVE wrapSharesLoop000(_, _, _, _, _, _, _)
wrapSharesLoop000(c, acc, unwrappedShares, kekInfos, keys, env, i) ==
    IF i > Len(unwrappedShares) \/ acc.err # "" THEN acc
    ELSE wrapSharesLoop000(
             c, wrapShare000(c, acc, unwrappedShares[i], kekInfos, keys, env, i),
             unwrappedShares, kekInfos, keys, env, i + 1)

wrapShares000(c, s, unwrappedShares, kekInfos, keys, env) ==
    IF Len(unwrappedShares) # Len(kekInfos)
    THEN [err |-> "number of shares to wrap does not match number of KEKs",
          wrappedShares |-> <<>>, kekMetadatas |-> <<>>, s |-> s]
    ELSE [wrapSharesLoop000(
              c, [err |-> "", wrappedShares |-> <<>>, kekMetadatas |-> <<>>, s |-> s],
              unwrappedShares, kekInfos, keys, env, 1)
          EXCEPT !.s = runDeferred(@)]

\* Shamir's split of the secret into n shares, any k of which give it back.
SplitShares(secret, n, k) ==
    IF k < 2 \/ k > n \/ n > 255 THEN [err |-> "error splitting", shares |-> <<>>]
    ELSE [err |-> "", shares |-> [x \in 1..n |-> Share(x, secret, k)]]

EncryptedData(ciphertext, metadata) == [ciphertext |-> ciphertext, metadata |-> metadata]

\* The switch of Encrypt on keyCfg.KeySplittingAlgorithm: the shares to wrap.
splitDEK000(dataEncryptionKey, keyCfg) ==
    CASE keyCfg.alg = "NoSplit" ->
           IF Len(keyCfg.kekInfos) # 1
           THEN [err |-> "invalid Encrypt configuration", shares |-> <<>>]
           ELSE [err |-> "", shares |-> <<Share(0, dataEncryptionKey, 1)>>]
      [] keyCfg.alg = "Shamir" ->
           IF Len(keyCfg.kekInfos) # keyCfg.shares
           THEN [err |-> "invalid Encrypt configuration", shares |-> <<>>]
           ELSE IF SplitShares(dataEncryptionKey, keyCfg.shares, keyCfg.threshold).err # ""
           THEN [err |-> "error splitting encryption key", shares |-> <<>>]
           ELSE SplitShares(dataEncryptionKey, keyCfg.shares, keyCfg.threshold)
      [] OTHER -> [err |-> "Unknown key splitting algorithm", shares |-> <<>>]

\* Encrypt from the return of wrapShares (w) on.
EncryptSeal000(plaintextIn, config, blobID, io, w) ==
    LET metadata == Metadata(IF blobID = "" THEN uuidNewString ELSE blobID,
                             config.keyConfig, w.wrappedShares)
        a == AeadEncrypt(NewDEK, plaintextIn, MetadataToAAD(metadata), io)
    IN  IF w.err # ""
        THEN Outcome(IF w.err = "panic" THEN "panic" ELSE "Error wrapping shares",
                     <<>>, "", <<>>, w.s, 0, <<>>)
        ELSE IF a.err # ""
        THEN Outcome("error encrypting data", <<>>, "", <<>>, w.s, 0, <<>>)
        ELSE Outcome("", <<>>, metadata.blobID, <<EncryptedData(a.written[1], metadata)>>,
                     w.s, 0, <<>>)

\* A nil config gives a nil keyCfg, which the switch dereferences.
Encrypt000(c, plaintextIn, config, keys, blobID, env, io) ==
    IF config.isNil THEN Outcome("panic", <<>>, "", <<>>, CallStart(c), 0, <<>>)
    ELSE IF splitDEK000(NewDEK, config.keyConfig).err # ""
    THEN Outcome(splitDEK000(NewDEK, config.keyConfig).err, <<>>, "", <<>>, CallStart(c),
                 0, <<>>)
    ELSE EncryptSeal000(
             plaintextIn, config, blobID, io,
             wrapShares000(c, CallStart(c), splitDEK000(NewDEK, config.keyConfig).shares,
                           config.keyConfig.kekInfos, keys, env))

\* Shamir's combine: it wants two shares at least.
CombineShares000(list) ==
    IF Len(list) < 2 THEN [err |-> "Error combining DEK shares", dek |-> ""]
    ELSE [err |-> "", dek |-> CombineShares(list)]

\* The switch of Decrypt on matchingKeyConfig.KeySplittingAlgorithm.
combineDEK000(keyCfg, unwrappedShares) ==
    CASE keyCfg.alg = "NoSplit" ->
           IF Len(unwrappedShares) # 1
           THEN [err |-> "number of unwrapped shares is not 1", dek |-> ""]
           ELSE [err |-> "", dek |-> unwrappedShares[1].secret]
      [] keyCfg.alg = "Shamir" -> CombineShares000(unwrappedShares)
      [] OTHER -> [err |-> "Unknown key splitting algorithm", dek |-> ""]

aeadDecrypt(dek, ciphertext, aad, io) ==
    IF \/ io = "aeadErr"
       \/ ciphertext.body[1] # dek
       \/ ciphertext.body[2] # aad
    THEN [err |-> "AeadFailed", written |-> <<>>]
    ELSE [err |-> "", written |-> <<ciphertext.body[3]>>]

\* The URIs Decrypt returns: those of all KekUri KekInfos of all KeyConfigs
\* of the DecryptConfig.
RECURSIVE kekUrisOf(_)
kekUrisOf(kekInfos) ==
    IF kekInfos = <<>> THEN <<>>
    ELSE (IF Head(kekInfos).type = "KekUri" THEN <<Head(kekInfos).uri>> ELSE <<>>)
         \o kekUrisOf(Tail(kekInfos))

RECURSIVE configKeyURIs(_)
configKeyURIs(keyConfigs) ==
    IF keyConfigs = <<>> THEN <<>>
    ELSE kekUrisOf(Head(keyConfigs).kekInfos) \o configKeyURIs(Tail(keyConfigs))

\* Decrypt from the return of unwrapAndValidateShares (u) on.
DecryptCombine000(data, config, io, found, u) ==
    LET combined == combineDEK000(config.keyConfigs[found], u.unwrappedShares)
        a == aeadDecrypt(combined.dek, data.ciphertext, MetadataToAAD(data.metadata), io)
    IN  IF u.err # ""
        THEN Outcome(IF u.err = "panic" THEN "panic"
                     ELSE "error unwrapping and validating shares",
                     <<>>, "", <<>>, u.s, found, <<>>)
        ELSE IF combined.err # ""
        THEN Outcome(combined.err, <<>>, "", <<>>, u.s, found, u.unwrappedShares)
        ELSE IF a.err # ""
        THEN Outcome("error decrypting data", <<>>, "", <<>>, u.s, found, u.unwrappedShares)
        ELSE Outcome("", configKeyURIs(config.keyConfigs), data.metadata.blobID, a.written,
                     u.s, found, u.unwrappedShares)

DecryptMatched000(c, data, config, keys, env, io, found) ==
    IF found = 0
    THEN Outcome("no known KeyConfig matches given data", <<>>, "", <<>>, CallStart(c), 0, <<>>)
    ELSE DecryptCombine000(
             data, config, io, found,
             unwrapAndValidateShares000(c, CallStart(c), data.metadata.shares,
                                        config.keyConfigs[found].kekInfos, keys, env))

Decrypt000(c, data, config, keys, env, io) ==
    DecryptMatched000(c, data, config, keys, env, io,
                      matchingKeyConfig(config.keyConfigs, data.metadata.keyConfig))

\* What the world does during a call of this client: there are no streams,
\* the AEAD alone can fail.
EncryptWorlds000(keyCfg) == Worlds(keyCfg.kekInfos, TRUE, {"aeadErr"}, 1)
DecryptWorlds000(keyCfg) == Worlds(keyCfg.kekInfos, FALSE, {"aeadErr"}, FaultBudget(keyCfg))

DecryptInputsFor000(keyCfg) ==
    {<<DecryptConfig(<<keyCfg>>), w>> : w \in DecryptWorlds000(keyCfg)}
    \cup {<<d, World([j \in 1..Len(keyCfg.kekInfos) |-> "ok"], "ok", "ok")>> :
            d \in {DecryptConfig(<<Near(keyCfg), keyCfg>>),
                   DecryptConfig(<<Near(keyCfg)>>),
                   NilDecryptConfig}}

\* A caller encrypts; disk holds the EncryptedData returned.
Encrypt000Call ==
    /\ pc = "idle"
    /\ disk = <<>>
    /\ \E config \in EncryptConfigs, in \in EncryptInputs :
         \E world \in EncryptWorlds000(config.keyConfig) :
           /\ result' = Encrypt000(StetClient, in[1], config, KeysOf(world.keys), in[2],
                                   world.env, world.io)
           /\ plaintext' = IF result'.err = "" THEN in[1] ELSE ""
           /\ call' = Call("Encrypt", in[1], config, in[2], world)
    /\ kmsClient' = result'.kmsClient
    /\ disk' = result'.out
    /\ pc' = "returned"
    /\ UNCHANGED <<fakeSecureSessionClient, conformance>>

\* A caller decrypts the EncryptedData it holds.
Decrypt000Call ==
    /\ pc = "idle"
    /\ disk # <<>>
    /\ \E in \in DecryptInputsFor000(disk[1].metadata.keyConfig) :
         /\ result' = Decrypt000(StetClient, disk[1], in[1], KeysOf(in[2].keys),
                                 in[2].env, in[2].io)
         /\ call' = Call("Decrypt", "", in[1], "", in[2])
    /\ kmsClient' = result'.kmsClient
    /\ pc' = "returned"
    /\ UNCHANGED <<fakeSecureSessionClient, conformance, disk, plaintext>>

Next000 == Encrypt000Call \/ Decrypt000Call \/ Return \/ NewStetClient

Spec000 == Init /\ [][Next000]_vars

(***************************************************************************)
(* C13.  A share that its RSA key cannot unwrap, in both clients.          *)
(***************************************************************************)

\* The shares of a list of UnwrappedShares.
SharesOf(unwrappedShares) == [j \in DOMAIN unwrappedShares |-> unwrappedShares[j].share]

\* In the call `c` with log `log`, share i is an RSA share of `kekInfos` that
\* was attempted and could not be unwrapped: the private key was not found,
\* or RSA-OAEP failed.
RsaUnwrapFailed(c, log, kekInfos, i) ==
    /\ kekInfos[i].type = "RsaFingerprint"
    /\ \E j \in DOMAIN log : log[j] = Ev("attempt", i)
    /\ c.keys # "ok" \/ c.env[i] = "oaepErr"

\* C13: when an RSA share of a Shamir KeyConfig cannot be unwrapped, the
\* earlier client's unwrapAndValidateShares goes on to the next share as the
\* present client's does, and both return the same unwrapped shares for the
\* same inputs.
RsaFailureContinuesInBoth ==
    [][(/\ pc = "idle" /\ pc' = "returned" /\ call'.op = "Decrypt"
        /\ result'.matched # 0
        /\ call'.keyConfigs[result'.matched].alg = "Shamir"
        /\ \E i \in DOMAIN call'.env :
              RsaUnwrapFailed(call', result'.log,
                              call'.keyConfigs[result'.matched].kekInfos, i))
       => /\ \A i \in DOMAIN call'.env :
               (/\ RsaUnwrapFailed(call', result'.log,
                                   call'.keyConfigs[result'.matched].kekInfos, i)
                /\ i < Len(call'.env))
               => \E j \in DOMAIN result'.log : result'.log[j] = Ev("attempt", i + 1)
          /\ result'.unwrapped =
               SharesOf(unwrapAndValidateShares(
                            StetClient, CallStart(StetClient), disk[1].metadata.shares,
                            call'.keyConfigs[result'.matched].kekInfos,
                            KeysOf(call'.keys), call'.env).unwrappedShares)
      ]_vars

\* The earlier client's Decrypt of a 2-of-3 container whose first share RSA
\* cannot unwrap: shares 2 and 3 are never attempted, and Decrypt fails
\* though they could be unwrapped and meet the threshold.
RsaFailureEndsEarlierDecrypt ==
    /\ AfterDecrypt /\ result.matched # 0
    /\ Matched = KeyConfig(<<RsaKek("fpA"), UriKek(GcpUri("kS")), UriKek(GcpUri("kE"))>>,
                           "Shamir", 3, 2)
    /\ call.env = <<"oaepErr", "ok", "ok">>
    /\ call.keys = "ok" /\ call.io = "ok"
    /\ Did("attempt", 1) /\ ~Did("attempt", 2) /\ ~Did("attempt", 3)
    /\ result.unwrapped = <<>>
    /\ result.err = "error unwrapping and validating shares"

(***************************************************************************)
(* C14, C15.  What the KEK metadata lookup rejects.                        *)
(***************************************************************************)

\* The requests that wrap or unwrap a share: Cloud KMS Encrypt and Decrypt,
\* and every step of a secure session.
WrapRequests ==
    {"Encrypt", "Decrypt", "GenerateTokenWithAudience", "EstablishSecureSession",
     "ConfidentialWrap", "ConfidentialUnwrap", "EndSession"}

\* Cloud KMS answered the lookup for the KEK of share i with a primary
\* version that is not ENABLED, or of unspecified protection level.
LookupRejected(i) ==
    /\ Did("GetCryptoKey", i)
    /\ call.env[i] \in {"disabled", "unspecified"}

\* The log from the lookup for share i on.
AfterLookup(i) ==
    {q \in DOMAIN result.log :
        \E g \in DOMAIN result.log : result.log[g] = Ev("GetCryptoKey", i) /\ g < q}

\* C14: when the primary version of a gcp-kms KEK is not ENABLED or its
\* protection level is UNSPECIFIED, the lookup fails: the call returns an
\* error, no request to wrap or unwrap goes out for that share, and none at
\* all after the lookup.
DisabledOrUnspecifiedRejected ==
    pc = "returned"
    => \A i \in DOMAIN call.env :
         LookupRejected(i)
         => /\ result.err # ""
            /\ ~result.returned
            /\ \A op \in WrapRequests : ~Did(op, i)
            /\ ~Did("wrapped", i) /\ ~Did("unwrapped", i)
            /\ \A q \in AfterLookup(i) : result.log[q].op \notin WrapRequests

\* Encrypt under a Cloud KMS key whose primary version is found disabled when
\* the second share is to be wrapped.
DisabledKekWitness ==
    /\ AfterEncrypt
    /\ call.keyConfig.kekInfos = <<UriKek(GcpUri("kS")), UriKek(GcpUri("kS"))>>
    /\ call.env = <<"ok", "disabled">>
    /\ Did("Encrypt", 1) /\ LookupRejected(2) /\ ~Did("Encrypt", 2)
    /\ result.err = "error wrapping shares"

\* The steps of a secure session.
SessionSteps ==
    {"GenerateTokenWithAudience", "EstablishSecureSession",
     "ConfidentialWrap", "ConfidentialUnwrap", "EndSession"}

\* The KekInfos of the call: those of the EncryptConfig, or of the KeyConfig
\* Decrypt matched.
KekInfosOfCall ==
    IF call.op = "Encrypt" THEN call.keyConfig.kekInfos
    ELSE IF result.matched # 0 THEN Matched.kekInfos
    ELSE <<>>

\* Share i is under an EXTERNAL key and Cloud KMS was asked about it.
ExternalLookedUp(i) ==
    /\ i \in DOMAIN KekInfosOfCall
    /\ KekInfosOfCall[i].type = "KekUri"
    /\ ProtectionLevelOf(KekInfosOfCall[i].uri.path) = "EXTERNAL"
    /\ Did("GetCryptoKey", i)

\* C15: for an EXTERNAL KEK whose Cloud KMS record has no external key URI
\* (no options, or an empty URI) the lookup fails and no step of a secure
\* session is taken for the share; with a URI, the share is wrapped in a
\* session with the key manager at that URI and that URI is reported.
ExternalNeedsKeyUri ==
    pc = "returned"
    => \A i \in DOMAIN call.env :
         ExternalLookedUp(i)
         => /\ call.env[i] \in {"noExtOptions", "extUriEmpty"}
                 => /\ \A op \in SessionSteps : ~Did(op, i)
                    /\ ~Did("wrapped", i) /\ ~Did("unwrapped", i)
            /\ (call.op = "Encrypt" /\ result.err = "")
                 => /\ protoUnmarshal(result.out[2].body).shares[i].share.kind = "ekm"
                    /\ protoUnmarshal(result.out[2].body).shares[i].share.id
                         = ExternalKeyUri.path
                    /\ \E u \in DOMAIN result.keyUris : result.keyUris[u] = ExternalKeyUri

\* The record of the EXTERNAL key has options with an empty external key
\* URI: the lookup succeeds, a token is asked for and a session is tried at
\* the empty address.
SessionAtEmptyUri ==
    /\ AfterEncrypt
    /\ call.keyConfig.kekInfos = <<UriKek(GcpUri("kE"))>>
    /\ call.env = <<"extUriEmpty">>
    /\ ExternalLookedUp(1)
    /\ Did("GenerateTokenWithAudience", 1)
    /\ Did("EstablishSecureSession", 1)
    /\ result.err = "error wrapping shares"

(***************************************************************************)
(* C16.  The key URIs Encrypt returns.                                     *)
(***************************************************************************)

IsKekUri(kek) == kek.type = "KekUri"

\* The URI reported for a KekUri share: the external key URI for an EXTERNAL
\* key, the gcp-kms:// URI itself for a SOFTWARE or HSM key.
ReportedUri(kek) ==
    IF ProtectionLevelOf(kek.uri.path) = "EXTERNAL" THEN ExternalKeyUri ELSE kek.uri

\* One URI for every KekUri KekInfo, in the order of the KekInfos.
ExpectedKeyUris(kekInfos) ==
    [j \in 1..Len(SelectSeq(kekInfos, IsKekUri)) |->
        ReportedUri(SelectSeq(kekInfos, IsKekUri)[j])]

\* C16: the key URIs a successful Encrypt returns are, in the order of the
\* shares, one for every KekUri share and none for an RSA share: the
\* gcp-kms:// URI of a SOFTWARE or HSM key, the external key URI of an
\* EXTERNAL one.
EncryptKeyUrisPositional ==
    (AfterEncrypt /\ result.err = "")
    => /\ result.returned
       /\ result.keyUris = ExpectedKeyUris(call.keyConfig.kekInfos)

\* An external key, an RSA key and a software key, in this order.
EncryptKeyUrisWitness ==
    /\ AfterEncrypt /\ result.err = ""
    /\ call.keyConfig.kekInfos = <<UriKek(GcpUri("kE")), RsaKek("fpA"), UriKek(GcpUri("kS"))>>
    /\ result.keyUris = <<ExternalKeyUri, GcpUri("kS")>>

(***************************************************************************)
(* C17.  One lookup for every URI.                                         *)
(***************************************************************************)

\* The shares of the call that are under the gcp-kms:// URI of share i.
SameUri(i) ==
    {j \in DOMAIN KekInfosOfCall :
        /\ KekInfosOfCall[j].type = "KekUri"
        /\ KekInfosOfCall[i].type = "KekUri"
        /\ KekInfosOfCall[j].uri = KekInfosOfCall[i].uri}

\* The GetCryptoKey requests of the call for the URI of share i.
LookupsFor(i) ==
    {q \in DOMAIN result.log :
        result.log[q].op = "GetCryptoKey" /\ result.log[q].share \in SameUri(i)}

\* C17: within one call of Encrypt or Decrypt, GetCryptoKey goes out at most
\* once for a gcp-kms:// URI, also when several KekInfos have that URI.
OneLookupPerUri ==
    pc = "returned"
    => \A i \in DOMAIN KekInfosOfCall : Cardinality(LookupsFor(i)) <= 1

\* Encrypt under two KekInfos with the same URI asks Cloud KMS about it for
\* each of them.
UriLookedUpTwice ==
    /\ AfterEncrypt /\ result.err = ""
    /\ call.keyConfig.kekInfos = <<UriKek(GcpUri("kS")), UriKek(GcpUri("kS"))>>
    /\ Did("GetCryptoKey", 1) /\ Did("GetCryptoKey", 2)
    /\ Cardinality(LookupsFor(1)) = 2

(***************************************************************************)
(* C18.  The checksums on the Cloud KMS path.                              *)
(***************************************************************************)

\* What makes wrapKMSShare, and what makes unwrapKMSShare, return an error:
\* the request fails, Cloud KMS did not verify the checksum of the plaintext
\* sent, or the checksum it declares for its answer is not that of the answer.
KmsWrapFailures == {"rpcErr", "cancel", "unverified", "badCrc"}
KmsUnwrapFailures == {"rpcErr", "cancel", "badCrc"}

\* C18: wrapKMSShare gives the ciphertext only when the Encrypt request
\* succeeded, the plaintext checksum was verified and the ciphertext has the
\* checksum declared; unwrapKMSShare gives the plaintext only when it has the
\* checksum declared.  Otherwise there is an error and no payload: Encrypt
\* fails and writes nothing, Decrypt does not keep the share.
KmsChecksumsGuard ==
    /\ AfterEncrypt
         => \A i \in DOMAIN call.env :
              /\ (Did("Encrypt", i) /\ call.env[i] \in KmsWrapFailures)
                   => (~Did("wrapped", i) /\ result.err # "" /\ result.out = <<>>)
              /\ (Did("Encrypt", i) /\ result.err = "")
                   => protoUnmarshal(result.out[2].body).shares[i].share
                        = Blob("kms", call.keyConfig.kekInfos[i].uri.path, "",
                               CreateDEKShares(NewDEK, call.keyConfig).shares[i])
    /\ AfterDecrypt
         => \A i \in DOMAIN call.env :
              (Did("Decrypt", i) /\ call.env[i] \in KmsUnwrapFailures)
                => ~Did("unwrapped", i)

\* Cloud KMS declares a checksum that is not that of the ciphertext it
\* returns, and Encrypt fails.
BadCiphertextChecksum ==
    /\ AfterEncrypt
    /\ call.keyConfig.kekInfos = <<RsaKek("fpA"), UriKek(GcpUri("kS"))>>
    /\ call.env = <<"ok", "badCrc">>
    /\ Did("Encrypt", 2) /\ ~Did("wrapped", 2)
    /\ result.err = "error wrapping shares"
    /\ result.out = <<>>

(***************************************************************************)
(* C19.  The KeyConfig is validated before any share is wrapped.           *)
(***************************************************************************)

\* The KeyConfigs the claim is about: NoSplit over a number of KekInfos other
\* than one, Shamir over a number of KekInfos other than its number of
\* shares, no splitting algorithm known.
MisshapenKeyConfig(keyCfg) ==
    \/ keyCfg.alg = "NoSplit" /\ Len(keyCfg.kekInfos) # 1
    \/ keyCfg.alg = "Shamir" /\ Len(keyCfg.kekInfos) # keyCfg.shares
    \/ keyCfg.alg \notin {"NoSplit", "Shamir"}

\* The errors Encrypt returns from the validation of the KeyConfig, in
\* client.go and in the earlier client.
ValidationErrors ==
    {"error creating DEK shares", "invalid Encrypt configuration",
     "Unknown key splitting algorithm"}

\* C19: Encrypt under such a KeyConfig fails at the validation, before
\* wrapShares is entered: no request went to Cloud KMS or to a secure
\* session, and nothing was written.
KeyConfigValidatedFirst ==
    (AfterEncrypt /\ ~call.isNil /\ MisshapenKeyConfig(call.keyConfig))
      => /\ result.err \in ValidationErrors
         /\ result.log = <<>>
         /\ result.out = <<>>
         /\ disk = <<>>

\* Encrypt was called under NoSplit over two KekInfos that could both wrap,
\* and it failed with nothing asked of Cloud KMS.
TwoKeksUnderNoSplit ==
    /\ AfterEncrypt
    /\ call.keyConfig = KeyConfig(<<UriKek(GcpUri("kS")), UriKek(GcpUri("kS"))>>,
                                  "NoSplit", 0, 0)
    /\ call.env = <<"ok", "ok">>
    /\ result.err = "error creating DEK shares"
    /\ result.log = <<>>

(***************************************************************************)
(* C20.  Shares and KekInfos are bound by position.                        *)
(*                                                                         *)
(* Encrypt always hands wrapShares as many shares as KekInfos, and Decrypt *)
(* of a container Encrypt wrote does the same for                          *)
(* unwrapAndValidateShares.  SpecShareLists adds callers from inside the   *)
(* package that hand the two functions lists of any lengths.               *)
(***************************************************************************)

ShareLists == {[x \in 1..m |-> Share(x, NewDEK, 2)] : m \in 0..MaxShares}
KekInfoLists == {keyCfg.kekInfos : keyCfg \in ValidKeyConfigs}

Longest(a, b) == IF Len(a) >= Len(b) THEN Len(a) ELSE Len(b)

\* The call at hand, when it is one of wrapShares or unwrapAndValidateShares:
\* the list handed over is in `input`, the KekInfos in `keyConfig`.
ListCall(op, list, kekInfos) ==
    [Call(op, list, NilEncryptConfig, "", World([j \in 1..Longest(list, kekInfos) |-> "ok"],
                                                "ok", "ok"))
     EXCEPT !.isNil = FALSE, !.keyConfig = KeyConfig(kekInfos, "unset", 0, 0)]

\* wrapShares is called on a list of shares and a list of KekInfos.
WrapSharesCall ==
    /\ pc = "idle"
    /\ disk = <<>>
    /\ \E unwrappedShares \in ShareLists, kekInfos \in KekInfoLists :
         /\ call' = ListCall("wrapShares", unwrappedShares, kekInfos)
         /\ result' = LET w == wrapShares(StetClient, CallStart(StetClient), unwrappedShares,
                                          kekInfos, KeysOf("ok"), call'.env)
                       IN  Outcome(w.err, w.keyURIs, "", w.wrappedShares, w.s, 0, <<>>)
    /\ kmsClient' = result'.kmsClient
    /\ pc' = "returned"
    /\ UNCHANGED <<fakeSecureSessionClient, conformance, disk, plaintext>>

\* The shares of the container on disk, some of them left out or one of them
\* twice.
WrappedShareLists ==
    {SubSeq(OnDisk.shares, 1, m) : m \in 0..Len(OnDisk.shares)}
    \cup {Append(OnDisk.shares, OnDisk.shares[1])}

\* unwrapAndValidateShares is called on a list of wrapped shares and the
\* KekInfos of the container.
UnwrapSharesCall ==
    /\ pc = "idle"
    /\ disk # <<>>
    /\ \E wrappedShares \in WrappedShareLists :
         /\ call' = ListCall("unwrapAndValidateShares", wrappedShares,
                             OnDisk.keyConfig.kekInfos)
         /\ result' = LET u == unwrapAndValidateShares(
                                    StetClient, CallStart(StetClient), wrappedShares,
                                    OnDisk.keyConfig.kekInfos, KeysOf("ok"), call'.env)
                       IN  Outcome(u.err, <<>>, "", <<>>, u.s, 0, u.unwrappedShares)
    /\ kmsClient' = result'.kmsClient
    /\ pc' = "returned"
    /\ UNCHANGED <<fakeSecureSessionClient, conformance, disk, plaintext>>

NextShareLists == Next \/ WrapSharesCall \/ UnwrapSharesCall

SpecShareLists == Init /\ [][NextShareLists]_vars

\* `blob` is `share` wrapped under the key `kek` names.
WrappedUnder(blob, kek, share) ==
    /\ blob.pt = share
    /\ CASE kek.type = "RsaFingerprint" -> blob.kind = "rsa" /\ blob.id = kek.fp
         [] kek.type = "KekUri" ->
              \/ blob.kind = "kms" /\ blob.id = kek.uri.path
              \/ blob.kind = "ekm" /\ blob.res = kek.uri.path
         [] OTHER -> FALSE

\* The i-th wrapped share of `wrapped` is the i-th share of `made` under the
\* i-th KekInfo, with the hash of that share.
BoundByPosition(wrapped, kekInfos, made) ==
    /\ Len(wrapped) = Len(kekInfos)
    /\ \A i \in DOMAIN wrapped :
         /\ wrapped[i].hash = HashShare(made[i])
         /\ WrappedUnder(wrapped[i].share, kekInfos[i], made[i])

ListCallReturned(op) == pc = "returned" /\ call.op = op

UnequalLengths == Len(call.input) # Len(call.keyConfig.kekInfos)

\* C20: the Metadata of a successful Encrypt has as many shares as KekInfos,
\* the i-th being share i wrapped under KekInfo i with the SHA-256 hash of
\* share i; wrapShares and unwrapAndValidateShares, given a number of shares
\* that is not the number of KekInfos, fail without a request made.
SharesBoundByPosition ==
    /\ (AfterEncrypt /\ result.err = "")
         => /\ protoUnmarshal(result.out[2].body).keyConfig = call.keyConfig
            /\ BoundByPosition(protoUnmarshal(result.out[2].body).shares,
                               call.keyConfig.kekInfos,
                               CreateDEKShares(NewDEK, call.keyConfig).shares)
    /\ (ListCallReturned("wrapShares") /\ result.err = "")
         => BoundByPosition(result.out, call.keyConfig.kekInfos, call.input)
    /\ (ListCallReturned("wrapShares") /\ UnequalLengths)
         => /\ result.err = "number of shares to wrap does not match number of KEKs"
            /\ result.log = <<>>
            /\ result.out = <<>>
    /\ (ListCallReturned("unwrapAndValidateShares") /\ UnequalLengths)
         => /\ result.err = "number of shares to unwrap does not match number of KEKs"
            /\ result.log = <<>>
            /\ result.unwrapped = <<>>

\* wrapShares was given one share for two KekInfos that could both wrap.
OneShareForTwoKeks ==
    /\ ListCallReturned("wrapShares")
    /\ Len(call.input) = 1
    /\ call.keyConfig.kekInfos = <<UriKek(GcpUri("kS")), RsaKek("fpA")>>
    /\ result.err # ""
    /\ result.log = <<>>

(***************************************************************************)
(* C21.  Only hash-verified shares are retained.                           *)
(***************************************************************************)

\* The wrapped share the j-th retained share was unwrapped from: the loop
\* goes through the wrapped shares in order and appends what it keeps.
SourceOf(j) == CHOOSE i \in Verified : Cardinality({k \in Verified : k <= i}) = j

\* C21: every share unwrapAndValidateShares retains hashes to the share_hash
\* stored with the wrapped share it was unwrapped from; a share whose hash
\* does not match is not retained and gives no URI.
RetainedSharesVerified ==
    AfterDecrypt
      => /\ result.unwrapped # <<>>
              => /\ Len(result.unwrapped) = Cardinality(Verified)
                 /\ \A j \in DOMAIN result.unwrapped :
                      HashShare(result.unwrapped[j].share) = OnDisk.shares[SourceOf(j)].hash
         /\ \A i \in DOMAIN call.env :
              call.env[i] = "wrongPlain"
                => /\ ~Did("unwrapped", i)
                   /\ \A j \in DOMAIN result.unwrapped :
                        result.unwrapped[j].share # GarbageShare
         /\ \A j \in DOMAIN result.keyUris :
              \E k \in DOMAIN result.unwrapped :
                result.keyUris[j] = result.unwrapped[k].uri

\* Cloud KMS gave back something else than the first share, with a checksum
\* that fits; the other two shares were retained and Decrypt succeeded.
MismatchedShareDropped ==
    /\ AfterDecrypt
    /\ Len(call.env) = 3
    /\ call.env[1] = "wrongPlain"
    /\ Did("Decrypt", 1)
    /\ ~Did("unwrapped", 1)
    /\ Len(result.unwrapped) = 2
    /\ result.err = ""

(***************************************************************************)
(* C22.  The order of the steps of a secure session.                       *)
(***************************************************************************)

IsPrefix(a, b) == Len(a) <= Len(b) /\ a = SubSeq(b, 1, Len(a))

IsSessionStep(i, e) == e.share = i /\ e.op \in SessionSteps

\* The steps of a secure session taken for share i, in the order taken.
SessionLog(i) ==
    LET steps == SelectSeq(result.log, LAMBDA e : IsSessionStep(i, e))
    IN  [j \in DOMAIN steps |-> steps[j].op]

\* A whole session of the call at hand.
WholeSession ==
    <<"GenerateTokenWithAudience", "EstablishSecureSession",
      IF call.op = "Encrypt" THEN "ConfidentialWrap" ELSE "ConfidentialUnwrap",
      "EndSession">>

\* C22: for a share under an EXTERNAL key the token is asked for first, for
\* the audience <scheme>://<host> of the external key URI, then the session
\* is established, then comes ConfidentialWrap or ConfidentialUnwrap, and
\* EndSession last; when no token is issued no session is established and
\* nothing is wrapped or unwrapped.
SessionStepsInOrder ==
    (AfterEncrypt \/ AfterDecrypt)
      => \A i \in DOMAIN call.env :
           /\ IsPrefix(SessionLog(i), WholeSession)
           /\ call.env[i] = "tokenErr" => Len(SessionLog(i)) <= 1
           /\ (ExternalLookedUp(i) /\ \A j \in 1..i : call.env[j] \in {"ok", "wrongPlain"})
                => SessionLog(i) = WholeSession

\* No token was issued for the second share, and the call went no further
\* with it than asking.
NoTokenNoSession ==
    /\ AfterEncrypt
    /\ Len(call.env) = 2
    /\ call.env[2] = "tokenErr"
    /\ ExternalLookedUp(2)
    /\ SessionLog(2) = <<"GenerateTokenWithAudience">>
    /\ result.err # ""

(***************************************************************************)
(* C23.  The blob ID.                                                      *)
(***************************************************************************)

\* The blob ID Encrypt gives a blob when the caller hands it blobID.
BlobIdFor(blobID) == IF blobID = "" THEN uuidNewString ELSE blobID

\* C23: Encrypt puts in the metadata, and returns, the blob ID of the caller
\* when there is one and a generated UUID otherwise, never an empty one; a
\* successful Decrypt returns the blob ID of the metadata, which is the one
\* Encrypt gave the blob.
BlobIdKept ==
    /\ (AfterEncrypt /\ result.err = "")
         => /\ result.blobID = BlobIdFor(call.blobID)
            /\ result.blobID # ""
            /\ protoUnmarshal(result.out[2].body).blobID = result.blobID
    /\ (AfterDecrypt /\ result.err = "")
         => /\ result.blobID = OnDisk.blobID
            /\ \E in \in EncryptInputs :
                 in[1] = plaintext /\ result.blobID = BlobIdFor(in[2])

\* A blob encrypted under the blob ID of the caller was decrypted, and
\* Decrypt reported that blob ID.
BlobIdReported ==
    /\ AfterDecrypt
    /\ result.err = ""
    /\ plaintext = "p2"
    /\ result.blobID = "blob-7"

(***************************************************************************)
(* C24.  The DEK in memory when a call returns.                            *)
(*                                                                         *)
(* shares.DEK is an array: NewDEK, CreateDEKShares, AeadEncrypt and        *)
(* AeadDecrypt get and give copies, so what the buffers of Encrypt and     *)
(* Decrypt hold when they return is what Encrypt and Decrypt last assigned *)
(* to them.                                                                *)
(***************************************************************************)

NotAllocated == "not allocated"
ZeroDEK == "zeros"

\* dataEncryptionKey of Encrypt when it returns: assigned once, from
\* shares.NewDEK(), past the check of the EncryptConfig.
dataEncryptionKeyAtReturn ==
    IF call.isNil THEN NotAllocated ELSE NewDEK

\* combinedDEK of Decrypt when it returns: assigned once, by the copy of the
\* combined shares, when CombineUnwrappedShares returned them.
combinedDEKAtReturn ==
    IF result.err \in {"", "error decrypting data"}
    THEN CombineUnwrappedShares(Matched, result.unwrapped).dek
    ELSE NotAllocated

\* The plaintext shares of the call when it returns: those CreateDEKShares
\* made, and those unwrapAndValidateShares retained.
sharesAtReturn ==
    IF call.op = "Encrypt"
    THEN (IF call.isNil THEN <<>> ELSE CreateDEKShares(NewDEK, call.keyConfig).shares)
    ELSE [j \in DOMAIN result.unwrapped |-> result.unwrapped[j].share]

\* C24: when Encrypt or Decrypt returns, with or without an error, the DEK
\* buffer and the buffers of the plaintext shares hold zeros.
DekZeroisedAtReturn ==
    /\ AfterEncrypt => dataEncryptionKeyAtReturn \in {NotAllocated, ZeroDEK}
    /\ AfterDecrypt => combinedDEKAtReturn \in {NotAllocated, ZeroDEK}
    /\ (AfterEncrypt \/ AfterDecrypt)
         => \A j \in DOMAIN sharesAtReturn : sharesAtReturn[j].secret = ZeroDEK

\* Encrypt has returned a blob, and its DEK buffer still holds the DEK.
DekLeftInMemory ==
    /\ AfterEncrypt
    /\ result.err = ""
    /\ dataEncryptionKeyAtReturn = NewDEK
    /\ \E j \in DOMAIN sharesAtReturn : sharesAtReturn[j].secret = NewDEK

(***************************************************************************)
(* C25.  The key file an RSA fingerprint resolves to.                      *)
(***************************************************************************)

\* The key files the call looks through for an RSA share: the public ones to
\* wrap, the private ones to unwrap.
KeyFilesOfCall ==
    IF call.op = "Encrypt" THEN KeysOf(call.keys).publicKeyFiles
    ELSE KeysOf(call.keys).privateKeyFiles

\* The call found a key for share i: it went on to RSA-OAEP with it.
KeyResolved(i) == Did(IF call.op = "Encrypt" THEN "EncryptOAEP" ELSE "DecryptOAEP", i)

\* C25: for a share under an RSA fingerprint, a key is found whenever some
\* file of the list holds a key with that fingerprint, whatever the other
\* files of the list are, and none is found only when no file does.
SomeMatchingFileResolves ==
    (AfterEncrypt \/ AfterDecrypt)
      => \A i \in DOMAIN KekInfosOfCall :
           (KekInfosOfCall[i].type = "RsaFingerprint" /\ Did("attempt", i))
             => (KeyResolved(i)
                   <=> \E j \in DOMAIN KeyFilesOfCall :
                         KeyFilesOfCall[j].fp = KekInfosOfCall[i].fp)

\* The first key file cannot be read, the second holds the key wanted, and
\* Encrypt fails without having used it.
UnreadableFileHidesKey ==
    /\ AfterEncrypt
    /\ call.keys = "unreadable"
    /\ call.keyConfig.kekInfos = <<RsaKek("fpA")>>
    /\ ~KeyFilesOfCall[1].readable
    /\ KeyFilesOfCall[2].fp = "fpA"
    /\ ~KeyResolved(1)
    /\ result.err # ""

(***************************************************************************)
(* cmd/conformance/main.go: the BeginSession test cases and, after them,   *)
(* the Handshake test cases.  The binary runs them in order against the    *)
(* server named by --key-uri and prints a verdict for each.  The server under test is free to answer as it likes: *)
(* what it answers is an input of every test case.                         *)
(***************************************************************************)

recordHeaderHandshake == 22        \* 0x16
handshakeHeaderServerHello == 2    \* 0x02

\* The records the TLS client put in the send buffer: a handshake record
\* with a Client Hello (0x01) at byte 5.
ClientHelloRecords == <<22, 3, 1, 0, 1, 1>>

identityFn(b) == b
emptyFn(b) == <<>>
\* r[5] = 0xFF.
malformedFn(r) == [r EXCEPT ![6] = 255]

mutateTLSRecords(name, r) ==
    CASE name = "identityFn" -> identityFn(r)
      [] name = "emptyFn" -> emptyFn(r)
      [] OTHER -> malformedFn(r)

beginSessionTest(testName, expectErr, mutate) ==
    [testName |-> testName, expectErr |-> expectErr, mutateTLSRecords |-> mutate]

\* testCases of main.
testCases ==
    <<beginSessionTest("Valid request with proper TLS Client Hello", FALSE, "identityFn"),
      beginSessionTest("Malformed Client Hello in request", TRUE, "malformedFn"),
      beginSessionTest("No TLS records in request", TRUE, "emptyFn")>>

\* The session_context a server hands out in its BeginSessionResponse.
SessionContext == <<83, 67>>

\* What c.client.BeginSession returns: an error, or a response with a
\* session_context and records.
BeginSessionResponse(err, records) ==
    [err |-> err, sessionContext |-> SessionContext, tlsRecords |-> records]

\* The answers of a server: it turns the request down, or it answers with a
\* Server Hello, an alert record, a handshake record that is no Server
\* Hello, a record cut short, or no record at all.
ServerAnswers ==
    {BeginSessionResponse(TRUE, <<>>)}
    \cup {BeginSessionResponse(FALSE, r) :
            r \in {<<22, 3, 3, 0, 1, 2>>, <<21, 3, 3, 0, 2, 2>>, <<22, 3, 3, 0, 1, 11>>,
                   <<22, 3, 3>>, <<>>}}

\* records[k] of Go, which panics past the end of the slice.
InRange(records, k) == k + 1 <= Len(records)
ByteAt(records, k) == records[k + 1]

\* runBeginSessionTestCase: what it returns, or that it panicked.
runBeginSessionTestCase(mutate, resp) ==
    LET req == [tlsRecords |-> mutateTLSRecords(mutate, ClientHelloRecords)]
        records == resp.tlsRecords
    IN  IF resp.err THEN [panicked |-> FALSE, err |-> "rpc error", req |-> req]
        ELSE IF ~InRange(records, 0)
        THEN [panicked |-> TRUE, err |-> "", req |-> req]
        ELSE IF ByteAt(records, 0) # recordHeaderHandshake
        THEN [panicked |-> FALSE, err |-> "Handshake record not received", req |-> req]
        ELSE IF ~InRange(records, 5)
        THEN [panicked |-> TRUE, err |-> "", req |-> req]
        ELSE IF ByteAt(records, 5) # handshakeHeaderServerHello
        THEN [panicked |-> FALSE, err |-> "Response is not Server Hello", req |-> req]
        ELSE [panicked |-> FALSE, err |-> "", req |-> req]

\* What main has to tell of a test case: r is what runBeginSessionTestCase
\* gave.  A test case that panicked is not reported; and the line of a test
\* case that did not pass is made with err.Error(), which panics when err
\* is nil.
TestRun(testCase, resp, r) ==
    LET testPassed == testCase.expectErr = (r.err # "")
    IN  [testName |-> testCase.testName, expectErr |-> testCase.expectErr,
         request |-> r.req.tlsRecords, response |-> resp,
         returned |-> ~r.panicked, err |-> r.err,
         reported |-> ~r.panicked /\ (testPassed \/ r.err # ""),
         testPassed |-> ~r.panicked /\ testPassed]

\* One turn of the loop of main over testCases.
RunBeginSessionTest ==
    /\ ~conformance.panicked
    /\ Len(conformance.ran) < Len(testCases)
    /\ \E resp \in ServerAnswers :
         LET testCase == testCases[Len(conformance.ran) + 1]
             r == runBeginSessionTestCase(testCase.mutateTLSRecords, resp)
             t == TestRun(testCase, resp, r)
         IN  conformance' = [conformance EXCEPT !.ran = Append(@, t),
                                                !.panicked = ~t.reported]
    /\ UNCHANGED <<kmsClient, fakeSecureSessionClient, disk, plaintext, pc, call, result>>

handshakeTest(testName, expectErr, mutate, mutateKey) ==
    [testName |-> testName, expectErr |-> expectErr,
     mutateTLSRecords |-> mutate, mutateSessionKey |-> mutateKey]

\* testCases2 of main.
testCases2 ==
    <<handshakeTest("Valid request with proper TLS Client Handshake", FALSE,
                    "identityFn", "identityFn"),
      handshakeTest("No TLS records in request", TRUE, "emptyFn", "identityFn"),
      handshakeTest("Invalid session key", TRUE, "identityFn", "emptyFn")>>

\* The records the TLS client put in the send buffer once it was given the
\* records of the BeginSessionResponse.
ClientHandshakeRecords == <<22, 3, 3, 0, 1, 20>>

\* What c.client.Handshake returns: an error, or a response with records.
HandshakeResponse(err, records) == [err |-> err, tlsRecords |-> records]

\* The answers of a server to Handshake: it turns the request down, or it
\* answers with no record, a handshake record or a record of another type.
HandshakeAnswers ==
    {HandshakeResponse(TRUE, <<>>)}
    \cup {HandshakeResponse(FALSE, r) :
            r \in {<<>>, <<22, 3, 3, 0, 1, 8>>, <<23, 3, 3, 0, 1, 0>>}}

\* runHandshakeTestCase: what it returns, and the HandshakeRequest it sent
\* if it came to send one.  resp is the answer to BeginSession and resp2 the
\* answer to Handshake; the records looked at after Handshake are those of
\* resp.
runHandshakeTestCase(mutate, mutateKey, resp, resp2) ==
    LET sessionContext == mutateTLSRecords(mutateKey, resp.sessionContext)
        req2 == [sessionContext |-> sessionContext,
                 tlsRecords |-> mutateTLSRecords(mutate, ClientHandshakeRecords)]
        records == resp.tlsRecords
    IN  IF resp.err THEN [err |-> "rpc error", sent |-> FALSE, req2 |-> req2]
        ELSE IF resp2.err THEN [err |-> "rpc error", sent |-> TRUE, req2 |-> req2]
        ELSE IF Len(records) > 0 /\ ByteAt(records, 0) # recordHeaderHandshake
        THEN [err |-> "Handshake record not received", sent |-> TRUE, req2 |-> req2]
        ELSE [err |-> "", sent |-> TRUE, req2 |-> req2]

\* What main has to tell of a Handshake test case: r is what
\* runHandshakeTestCase gave.  The line of a test case that did not pass is
\* made with err.Error(), which panics when err is nil.
HandshakeRun(testCase, resp, resp2, r) ==
    LET testPassed == testCase.expectErr = (r.err # "")
    IN  [testName |-> testCase.testName, expectErr |-> testCase.expectErr,
         mutateSessionKey |-> testCase.mutateSessionKey,
         response |-> resp, sent |-> r.sent, request2 |-> r.req2,
         response2 |-> resp2, err |-> r.err,
         reported |-> testPassed \/ r.err # "",
         testPassed |-> testPassed]

\* One turn of the loop of main over testCases2, which comes after the loop
\* over testCases.  Handshake is answered only if BeginSession was.
RunHandshakeTest ==
    /\ ~conformance.panicked
    /\ Len(conformance.ran) = Len(testCases)
    /\ Len(conformance.ran2) < Len(testCases2)
    /\ \E resp \in ServerAnswers :
       \E resp2 \in IF resp.err THEN {HandshakeResponse(TRUE, <<>>)} ELSE HandshakeAnswers :
         LET testCase == testCases2[Len(conformance.ran2) + 1]
             r == runHandshakeTestCase(testCase.mutateTLSRecords,
                                       testCase.mutateSessionKey, resp, resp2)
             t == HandshakeRun(testCase, resp, resp2, r)
         IN  conformance' = [conformance EXCEPT !.ran2 = Append(@, t),
                                                !.panicked = ~t.reported]
    /\ UNCHANGED <<kmsClient, fakeSecureSessionClient, disk, plaintext, pc, call, result>>

\* The binary is started again.
RestartConformance ==
    /\ conformance.panicked \/ Len(conformance.ran2) = Len(testCases2)
    /\ conformance' = NoTestRun
    /\ UNCHANGED <<kmsClient, fakeSecureSessionClient, disk, plaintext, pc, call, result>>

NextConformance == RunBeginSessionTest \/ RunHandshakeTest \/ RestartConformance

SpecConformance == Init /\ [][NextConformance]_vars

(***************************************************************************)
(* C26.  The verdict of a BeginSession test case.                          *)
(***************************************************************************)

\* The answer is a handshake record with a Server Hello.
IsServerHello(resp) ==
    /\ ~resp.err
    /\ Len(resp.tlsRecords) >= 6
    /\ ByteAt(resp.tlsRecords, 0) = recordHeaderHandshake
    /\ ByteAt(resp.tlsRecords, 5) = handshakeHeaderServerHello

\* C26: runBeginSessionTestCase returns success if and only if BeginSession
\* succeeded and answered with byte 0 = 0x16 and byte 5 = 0x02; a test case
\* is reported as passed exactly when expectErr equals whether an error was
\* returned; so the test cases with a corrupted Client Hello or with no
\* records pass only if BeginSession was turned down.
BeginSessionVerdict ==
    \A j \in DOMAIN conformance.ran :
      LET t == conformance.ran[j]
      IN  /\ (t.returned /\ t.err = "") <=> IsServerHello(t.response)
          /\ (t.reported /\ t.testPassed) <=> (t.expectErr = (t.err # ""))
          /\ (t.expectErr /\ t.reported /\ t.testPassed) => t.response.err

\* The server answered the valid Client Hello with no records; main
\* panicked at records[0] and reported nothing for the test case.
PanicOnShortAnswer ==
    /\ conformance.panicked
    /\ Len(conformance.ran) = 1
    /\ conformance.ran[1].response = BeginSessionResponse(FALSE, <<>>)
    /\ ~conformance.ran[1].expectErr
    /\ ~conformance.ran[1].reported

(***************************************************************************)
(* C27.  No request on a Cloud KMS client that has been closed.            *)
(***************************************************************************)

KmsRpcs == {"GetCryptoKey", "Encrypt", "Decrypt"}

\* The j-th step of `log` is a request to Cloud KMS, and the call had made
\* itself no client before it.
OnClientOfEarlierCall(log, j) ==
    /\ log[j].op \in KmsRpcs
    /\ \A k \in 1..(j - 1) : log[k].op # "NewKeyManagementClient"

\* C27: over the calls made on one StetClient, no request goes to Cloud KMS
\* on a client on which Close has been called: a call that starts with a
\* closed client makes itself a new one before its first request.
ClosedClientNotUsed ==
    [][(pc = "idle" /\ pc' = "returned" /\ kmsClient = "closed")
         => \A j \in DOMAIN result'.log : ~OnClientOfEarlierCall(result'.log, j)]_vars

\* Decrypt asked Cloud KMS about a key on the client that the Encrypt before
\* it had made and closed.
RequestOnClosedClient ==
    /\ AfterDecrypt
    /\ \E j \in DOMAIN result.log :
         /\ OnClientOfEarlierCall(result.log, j)
         /\ \E k \in 1..(j - 1) : result.log[k].op = "attempt"
    /\ kmsClient = "closed"

(***************************************************************************)
(* C28.  Close within one call of wrapShares or unwrapAndValidateShares.   *)
(***************************************************************************)

\* The steps of the call at which Close was called on the KMS client.
CloseSteps == {j \in DOMAIN result.log : result.log[j].op = "Close"}

\* C28: in one call of wrapShares or unwrapAndValidateShares, Close is
\* called on the Cloud KMS client once at most, and after the last request
\* to Cloud KMS, however many KekUri shares the KeyConfig has.
CloseOnceAfterLastRpc ==
    (AfterEncrypt \/ AfterDecrypt)
      => /\ Cardinality(CloseSteps) <= 1
         /\ \A j \in CloseSteps :
              \A k \in DOMAIN result.log : result.log[k].op \in KmsRpcs => k < j

\* Encrypt over two keys of Cloud KMS called Close twice on the one client.
ClosedTwice ==
    /\ AfterEncrypt
    /\ call.keyConfig.kekInfos = <<UriKek(GcpUri("kS")), UriKek(GcpUri("kE"))>>
    /\ result.err = ""
    /\ Cardinality(CloseSteps) = 2

(***************************************************************************)
(* C29.  Decrypt writes nothing before the DEK is there.                   *)
(*                                                                         *)
(* A container Encrypt wrote has one share for every KekInfo.              *)
(* SpecShortContainer has Decrypt also read containers that have lost a    *)
(* share on the way.                                                       *)
(***************************************************************************)

\* The container with the last share of its metadata gone.
WithoutLastShare(container) ==
    <<container[1],
      MetadataPart(protoMarshal(
          [protoUnmarshal(container[2].body)
           EXCEPT !.shares = SubSeq(@, 1, Len(@) - 1)])),
      container[3]>>

\* The container on disk loses a share.
ShareLost ==
    /\ pc = "idle"
    /\ disk # <<>>
    /\ Len(OnDisk.shares) = Len(OnDisk.keyConfig.kekInfos)
    /\ disk' = WithoutLastShare(disk)
    /\ UNCHANGED <<kmsClient, fakeSecureSessionClient, conformance, plaintext, pc, call, result>>

NextShortContainer == Next \/ ShareLost

SpecShortContainer == Init /\ [][NextShortContainer]_vars

\* Decrypt returned before AeadDecrypt was called.
FailedBeforeAead == AfterDecrypt /\ result.err \notin {"", "error decrypting data"}

\* Nothing went to the output, and no StetMetadata came back.
NothingGivenBack ==
    /\ result.out = <<>>
    /\ ~result.returned
    /\ result.keyUris = <<>>
    /\ result.blobID = ""

\* C29: on every path of Decrypt that fails before the AEAD decryption (nil
\* config, unreadable header or metadata, no matching KeyConfig, number of
\* shares other than that of KekInfos, KEK metadata error, fewer shares than
\* the threshold, shares that do not combine) nothing is written to the
\* output and no StetMetadata is returned.
DecryptWritesAfterCombine ==
    /\ FailedBeforeAead => NothingGivenBack
    /\ (AfterDecrypt /\ (call.isNil \/ call.io = "readErr" \/ result.matched = 0))
         => FailedBeforeAead
    /\ (AfterDecrypt /\ result.matched # 0)
         => /\ Len(OnDisk.shares) # Len(Matched.kekInfos) => FailedBeforeAead
            /\ (\E i \in DOMAIN call.env : call.env[i] = "getKeyErr" /\ Did("GetCryptoKey", i))
                 => FailedBeforeAead
            /\ (Matched.alg = "Shamir" /\ Cardinality(Verified) < Matched.threshold)
                 => FailedBeforeAead

\* A container under Shamir 2-of-2 has lost its second share; Decrypt fails
\* on the count and gives nothing back.
SharesFewerThanKeks ==
    /\ AfterDecrypt
    /\ result.matched # 0
    /\ Len(Matched.kekInfos) = 2
    /\ Len(OnDisk.shares) = 1
    /\ result.err = "error unwrapping and validating shares"
    /\ result.log = <<>>
    /\ NothingGivenBack

(***************************************************************************)
(* C30.  A checksum mismatch on Decrypt loses one share, not the call.     *)
(***************************************************************************)

\* Answers that lose a share at most, and leave the call going.
ShareFaults == {"ok", "badCrc", "rpcErr", "wrongPlain", "oaepErr"}

\* The number of shares the matching KeyConfig needs.
SharesNeeded == IF Matched.alg = "Shamir" THEN Matched.threshold ELSE 1

\* The URIs Decrypt returned are those of verified shares under a KekUri.
UrisOfVerifiedOnly ==
    Len(result.keyUris) <= Cardinality({j \in Verified : Matched.kekInfos[j].type = "KekUri"})

\* C30: when Cloud KMS answers Decrypt for share i with a plaintext that has
\* not the checksum declared, share i is not retained and gives no URI, the
\* share after it is attempted, and Decrypt succeeds when the shares that did
\* unwrap meet the threshold (the answers for the other shares being none
\* that ends the call).
KmsIntegrityLosesOneShare ==
    (AfterDecrypt /\ result.matched # 0)
      => \A i \in DOMAIN call.env :
           (call.env[i] = "badCrc" /\ Did("Decrypt", i))
             => /\ ~Did("unwrapped", i)
                /\ UrisOfVerifiedOnly
                /\ i < Len(call.env) => Did("attempt", i + 1)
                /\ (/\ ClientSound
                    /\ call.io = "ok"
                    /\ \A j \in DOMAIN call.env : call.env[j] \in ShareFaults
                    /\ Cardinality(Verified) >= SharesNeeded)
                     => /\ result.err = ""
                        /\ result.out = <<plaintext>>

\* The answer for the first of three shares had the wrong checksum; the two
\* RSA shares after it met the threshold and Decrypt succeeded.
ChecksumMismatchSurvived ==
    /\ AfterDecrypt /\ result.matched # 0
    /\ Matched = KeyConfig(<<UriKek(GcpUri("kS")), RsaKek("fpA"), RsaKek("fpA")>>,
                           "Shamir", 3, 2)
    /\ call.env = <<"badCrc", "ok", "ok">>
    /\ Did("Decrypt", 1)
    /\ Verified = {2, 3}
    /\ result.err = ""
    /\ result.keyUris = <<>>


(***************************************************************************)
(* C31.  The conformance runner reports every test case and does not       *)
(* crash.                                                                  *)
(***************************************************************************)

\* C31: whatever the server answers, main prints a line for every
\* BeginSession and every Handshake test case it runs and does not panic: a
\* test case that expects an error and gets none, or an answer of fewer
\* than 6 bytes of records, is reported as failed.
RunnerReportsEveryCase ==
    /\ ~conformance.panicked
    /\ \A j \in DOMAIN conformance.ran : conformance.ran[j].reported
    /\ \A j \in DOMAIN conformance.ran2 : conformance.ran2[j].reported

\* The server took the Handshake request without records; the test case
\* expected an error, runHandshakeTestCase returned nil, and main panicked
\* at err.Error() with the third Handshake test case not run.
NilErrorPrinted ==
    /\ conformance.panicked
    /\ Len(conformance.ran2) = 2
    /\ conformance.ran2[2].expectErr
    /\ conformance.ran2[2].sent
    /\ ~conformance.ran2[2].response2.err
    /\ conformance.ran2[2].err = ""
    /\ ~conformance.ran2[2].reported


(***************************************************************************)
(* C32.  The verdict of a Handshake test case.                             *)
(***************************************************************************)

\* The records are absent or begin with the handshake record type.
HandshakeRecordsOrNone(records) ==
    Len(records) > 0 => ByteAt(records, 0) = recordHeaderHandshake

\* C32: runHandshakeTestCase sends Handshake with the session_context of the
\* BeginSessionResponse after the mutation of the test case, and returns an
\* error when the Handshake RPC fails; a test case that mutates the
\* session_context passes only if the server turned the Handshake down; and
\* after a Handshake that succeeded the check of the record type is made on
\* the records of the HandshakeResponse.
HandshakeVerdict ==
    \A j \in DOMAIN conformance.ran2 :
      LET t == conformance.ran2[j]
      IN  /\ t.sent => t.request2.sessionContext
                          = mutateTLSRecords(t.mutateSessionKey, t.response.sessionContext)
          /\ (t.sent /\ t.response2.err) => t.err # ""
          /\ (t.mutateSessionKey # "identityFn" /\ t.reported /\ t.testPassed)
                => (t.sent /\ t.response2.err)
          /\ (t.sent /\ ~t.response2.err)
                => ((t.err = "") <=> HandshakeRecordsOrNone(t.response2.tlsRecords))

\* The server answered the valid Handshake with a record that is no
\* handshake record; the test case looked at the Server Hello of the
\* BeginSessionResponse instead and passed.
BeginSessionRecordsChecked ==
    /\ Len(conformance.ran2) >= 1
    /\ conformance.ran2[1].sent
    /\ ~conformance.ran2[1].response2.err
    /\ ~HandshakeRecordsOrNone(conformance.ran2[1].response2.tlsRecords)
    /\ IsServerHello(conformance.ran2[1].response)
    /\ conformance.ran2[1].err = ""
    /\ conformance.ran2[1].testPassed

====
